---- MODULE Spec2Model ----
(***************************************************************************)
(* The extraction-job engine of the Azure DevOps migration backend.        *)
(*                                                                         *)
(* The persisted state is the relational store (extraction_jobs,           *)
(* extraction_logs, projects, the artifact tables).  Every extraction run  *)
(* is an asyncio task; a task step of the model is one commit-delimited    *)
(* piece of the coroutine.  `loop` is the event loop: a task that has      *)
(* not reached its next await keeps the loop, so no other coroutine        *)
(* (task or async request handler) can run in between.  The job-list       *)
(* query is a plain `def` endpoint, which the framework runs on a worker   *)
(* thread, so it may run between any two commits.                          *)
(***************************************************************************)
EXTENDS Integers, Sequences, FiniteSets, Bags, TLC

(* ---- bounds of the model ---- *)
MaxJobs == 2
MaxSwitches == 1
NumWorkItems == 2
NumRepos == 1
MaxFaults == 1
MaxEdits == 1
MaxRuns == 2
MaxIndex == 201

(* ---- program constants ---- *)
BatchSize == 100
StallDefaultTotal == 10
PipelineSimTotal == 3
TestcaseSimTotal == 10
UnknownSimTotal == 10
SimMaxStep == 5
NumCustomFields == 6
NumUsers == 5
NumBoardColumns == 7
NumWikiPages == 5
AllMetadataTotal == 6

ProjectIds == {1}
ConnectionIds == {1}

ArtifactTypes ==
  {"workitems", "repositories", "pipelines", "testcases", "classification",
   "areapaths", "iterationpaths", "customfields", "users", "boardcolumns",
   "wikipages", "all-metadata", "other"}

VARIABLES
  jobs,         \* extraction_jobs rows, indexed by primary key
  tasks,        \* the asyncio task created for each job
  logs,         \* extraction_logs rows, as the set of (job_id, level) present
  project,      \* the projects row
  connections,  \* primary keys of the ado_connections rows
  work_items,   \* work_items rows
  revisions,    \* work_item_revisions rows (bag of [work_item_id, key])
  comments,     \* work_item_comments rows
  attachments,  \* work_item_attachments rows
  repositories, \* repositories rows
  branches,     \* branches rows (bag of [repository_id, key])
  commits,      \* commits rows
  pull_requests,\* pull_requests rows
  area_paths,   \* area_paths rows
  iteration_paths, \* iteration_paths rows
  meta_rows,    \* custom_fields, users, board_columns, wiki_pages rows
  pipelines,    \* pipelines rows
  pipeline_runs, \* pipeline_runs rows, by pipeline
  upstream,     \* the Azure DevOps project: whether it holds any records, and
                \* the content version of its records (bumped by an edit)
  loop,         \* the event loop: the task holding it, the task it ran last,
                \* and the switches between unfinished tasks so far
  faults,       \* number of upstream / database failures injected so far
  svc,          \* state of an ExtractionService.extract_project_data run
  client        \* an AzureDevOpsClient: whether it holds an aiohttp session,
                \* its last operation, the upstream response, the outcome

vars == <<jobs, tasks, logs, project, connections, work_items, revisions,
          comments, attachments, repositories, branches, commits,
          pull_requests, area_paths, iteration_paths, meta_rows, pipelines,
          pipeline_runs, upstream, loop, faults, svc, client>>

tables == <<work_items, revisions, comments, attachments, repositories,
            branches, commits, pull_requests, area_paths, iteration_paths,
            meta_rows, pipelines, pipeline_runs>>

(***************************************************************************)
(* Rows and helpers                                                        *)
(***************************************************************************)

\* ExtractionJob(project_id, artifact_type, status="in_progress",
\* started_at=utcnow(), progress=0); the other columns take their defaults.
\* started_at is kept as its age: "fresh" (within the stall window) or
\* "stale" (more than the stall window in the past).
NewJob(p, t, total) ==
  [project_id |-> p, artifact_type |-> t, status |-> "in_progress",
   progress |-> 0, total_items |-> total, extracted_items |-> 0,
   started_at |-> "fresh", completed_at |-> FALSE, error_message |-> ""]

JobIds == 1..Len(jobs)

\* int((k / n) * 100) as Python computes it in double precision: the quotient
\* is rounded before it is scaled, which loses one at exactly 29%, 57% and 58%
\* (checked by enumeration for every 0 <= k <= n <= 300).
PyProgress(k, n) ==
  IF k * 100 = 29 * n \/ k * 100 = 57 * n \/ k * 100 = 58 * n
    THEN (k * 100) \div n - 1
    ELSE (k * 100) \div n

Min(a, b) == IF a < b THEN a ELSE b

LogRow(j, level) == [job_id |-> j, level |-> level]

\* The coroutine start_extraction hands to asyncio.create_task for a type.
StartDispatch(t) ==
  CASE t = "workitems"      -> "extract_work_items"
    [] t = "repositories"   -> "extract_repositories"
    [] t = "pipelines"      -> "extract_pipelines"
    [] t = "testcases"      -> "extract_testcases"
    [] t = "classification" -> "extract_classification"
    [] t = "areapaths"      -> "extract_area_paths"
    [] t = "iterationpaths" -> "extract_iteration_paths"
    [] t = "customfields"   -> "extract_custom_fields"
    [] t = "users"          -> "extract_users"
    [] t = "boardcolumns"   -> "extract_board_columns"
    [] t = "wikipages"      -> "extract_wiki_pages"
    [] t = "all-metadata"   -> "extract_all_metadata"
    [] OTHER                -> "simulate_extraction"

\* The coroutine reextract_job hands to asyncio.create_task for a type.
ReextractDispatch(t) ==
  CASE t = "workitems"      -> "extract_work_items"
    [] t = "repositories"   -> "extract_repositories"
    [] t = "pipelines"      -> "extract_pipelines"
    [] t = "testcases"      -> "extract_testcases"
    [] OTHER                -> "simulate_extraction"

\* total_items start_extraction copies from the project's counters.
InitialTotal(t) ==
  CASE t = "workitems"    -> project.work_item_count
    [] t = "repositories" -> project.repo_count
    [] t = "testcases"    -> project.test_case_count
    [] t = "pipelines"    -> project.pipeline_count
    [] OTHER              -> 0

\* Number of items a simulated extraction is asked to produce.
SimTotal(top) ==
  CASE top = "extract_pipelines" -> PipelineSimTotal
    [] top = "extract_testcases" -> TestcaseSimTotal
    [] OTHER                     -> UnknownSimTotal

\* The six sub-extractions of extract_all_metadata, in call order.
MetadataSteps ==
  <<"extract_area_paths", "extract_iteration_paths", "extract_custom_fields",
    "extract_users", "extract_board_columns", "extract_wiki_pages">>

\* The progress extract_all_metadata writes after each sub-extraction.
MetadataProgress == <<16, 33, 50, 66, 83, 99>>

\* Where a coroutine is when it is first scheduled: the wrappers
\* (extract_pipelines, extract_testcases, extract_classification) do nothing
\* before they await their first callee.
FirstFn(top) ==
  CASE top \in {"extract_pipelines", "extract_testcases"} -> "simulate_extraction"
    [] top = "extract_classification" -> "extract_area_paths"
    [] OTHER -> top

NewTask(top) ==
  [top |-> top, fn |-> FirstFn(top), pc |-> "start",
   stage |-> IF top = "extract_classification" THEN 1 ELSE 0,
   n |-> 0, ids |-> << >>, batch |-> << >>, i |-> 0, k |-> 0,
   extracted |-> 0, dbid |-> 0, index |-> "none", raised |-> FALSE,
   db |-> 0, http |-> FALSE]

\* Program points at which a coroutine is suspended in an await; everywhere
\* else it keeps the event loop.
AwaitPcs ==
  {"start", "done", "crashed", "wi_index", "wi_details", "wi_rev", "wi_com",
   "wi_att", "wi_sleep", "rp_index", "rp_branches", "rp_commits", "rp_prs",
   "rp_sleep", "sim_sleep", "ap_index", "ip_index", "ip_h_area", "ip_h_iter",
   "ip_close"}

\* A coroutine begins either as a scheduled task ("start") or by being
\* awaited from a composite extraction ("enter").
Entry == {"start", "enter"}

Loop(j, pc) == IF pc \in AwaitPcs THEN 0 ELSE j

\* Resuming task j is a switch when the task the loop ran last is another
\* one that has not finished.
Switch(j) ==
  /\ loop.last \notin {0, j}
  /\ tasks[loop.last].pc \notin {"done", "crashed"}

\* A task may take a step when the event loop is free or it holds the loop.
CanRun(j) ==
  /\ j \in JobIds
  /\ loop.running \in {0, j}
  /\ tasks[j].pc \notin {"done", "crashed"}
  /\ Switch(j) => loop.switches < MaxSwitches

(***************************************************************************)
(* Initial state: an empty store holding one synced project whose          *)
(* connection_id may or may not match an ado_connections row.              *)
(***************************************************************************)

IdleLoop == [running |-> 0, last |-> 0, switches |-> 0]

SvcIdle ==
  [pc |-> "idle", types |-> << >>, job |-> 0, data |-> << >>, i |-> 0,
   runs |-> 0]

InitProject ==
  [connection_id |-> 1, work_item_count |-> 0, repo_count |-> 0,
   test_case_count |-> 0, pipeline_count |-> 0, area_path_count |-> 0,
   iteration_path_count |-> 0, custom_field_count |-> 0, user_count |-> 0,
   board_column_count |-> 0, wiki_page_count |-> 0]

EmptyMeta ==
  [f \in {"extract_custom_fields", "extract_users", "extract_board_columns",
          "extract_wiki_pages"} |-> EmptyBag]

\* The upstream project: whether it holds any records, the content version
\* of its records and the number of its work items.
Upstream(populated, n) ==
  [populated |-> populated, version |-> 0, work_items |-> n]

\* AzureDevOpsClient.__init__: no session, nothing requested yet.
NoCall ==
  [session |-> FALSE, op |-> "none",
   response |-> [kind |-> "none", code |-> 0], result |-> "none"]

EmptyStore ==
  /\ jobs = << >>
  /\ tasks = << >>
  /\ logs = {}
  /\ project = InitProject
  /\ work_items = {}
  /\ revisions = EmptyBag
  /\ comments = EmptyBag
  /\ attachments = EmptyBag
  /\ repositories = {}
  /\ branches = EmptyBag
  /\ commits = EmptyBag
  /\ pull_requests = EmptyBag
  /\ area_paths = EmptyBag
  /\ iteration_paths = EmptyBag
  /\ meta_rows = EmptyMeta
  /\ pipelines = {}
  /\ pipeline_runs = EmptyBag
  /\ loop = IdleLoop
  /\ svc = SvcIdle
  /\ client = NoCall

InitStore ==
  /\ EmptyStore
  /\ upstream \in {Upstream(b, IF b THEN NumWorkItems ELSE 0) : b \in BOOLEAN}
  /\ faults = 0

Init ==
  /\ InitStore
  /\ connections \in {{}, ConnectionIds}

(***************************************************************************)
(* HTTP handlers                                                           *)
(***************************************************************************)

\* The job descriptor a handler answers with; message is "" when the body
\* carries none.
Descriptor(j, message) == [id |-> j, message |-> message]

InProgressFor(p, t) ==
  {j \in JobIds : /\ jobs[j].project_id = p
                  /\ jobs[j].artifact_type = t
                  /\ jobs[j].status = "in_progress"}

\* The row .first() returns for the pre-check query.
FirstOf(S) == CHOOSE j \in S : \A o \in S : j <= o

\* The jobs of one behaviour are all for the same artifact type.
OneType(t) == \A j \in JobIds : jobs[j].artifact_type = t

\* start_extraction without its pre-check: every request inserts a job.
start_extraction_unchecked(p, t) ==
  /\ loop.running = 0
  /\ Len(jobs) < MaxJobs
  /\ OneType(t)
  /\ jobs' = Append(jobs, NewJob(p, t, InitialTotal(t)))
  /\ tasks' = Append(tasks, NewTask(StartDispatch(t)))
  /\ UNCHANGED <<logs, project, connections, tables, upstream, loop, faults,
                 svc, client>>

\* POST /api/extraction/start.  An async handler without an await: it runs
\* on the event loop from the pre-check to the create_task in one piece.
start_extraction(p, t) ==
  /\ loop.running = 0
  /\ \/ /\ InProgressFor(p, t) # {}
        /\ UNCHANGED <<jobs, tasks>>
     \/ /\ InProgressFor(p, t) = {}
        /\ Len(jobs) < MaxJobs
        /\ OneType(t)
        /\ jobs' = Append(jobs, NewJob(p, t, InitialTotal(t)))
        /\ tasks' = Append(tasks, NewTask(StartDispatch(t)))
  /\ UNCHANGED <<logs, project, connections, tables, upstream, loop, faults,
                 svc, client>>

\* A handler that always answers with the descriptor of a new job.
StartResponseFresh(p, t) == Descriptor(Len(jobs) + 1, "")

\* The body start_extraction answers with in the current state.
StartResponse(p, t) ==
  IF InProgressFor(p, t) # {}
    THEN Descriptor(FirstOf(InProgressFor(p, t)),
                    "Extraction already in progress")
    ELSE Descriptor(Len(jobs) + 1, "")

\* POST /api/extraction/{job_id}/reextract.
reextract_job(j) ==
  /\ loop.running = 0
  /\ j \in JobIds
  /\ Len(jobs) < MaxJobs
  /\ jobs' = Append(jobs, NewJob(jobs[j].project_id, jobs[j].artifact_type, 0))
  /\ tasks' = Append(tasks, NewTask(ReextractDispatch(jobs[j].artifact_type)))
  /\ UNCHANGED <<logs, project, connections, tables, upstream, loop, faults,
                 svc, client>>

\* The body reextract_job answers with in the current state.
ReextractResponse(j) == Descriptor(Len(jobs) + 1, "")

Stalled(job) == job.status = "in_progress" /\ job.started_at = "stale"

\* job.total_items or 10
OrDefault(x) == IF x = 0 THEN StallDefaultTotal ELSE x

\* Seeded fault: a job without a total is completed with zero items instead
\* of the default of 10.
ForceCompleteKeepsZero(job) ==
  [job EXCEPT !.status = "completed", !.progress = 100,
              !.extracted_items = job.total_items,
              !.completed_at = TRUE]

ForceComplete(job) ==
  [job EXCEPT !.status = "completed", !.progress = 100,
              !.extracted_items = OrDefault(job.total_items),
              !.total_items = OrDefault(job.total_items),
              !.completed_at = TRUE]

\* GET /api/extraction/jobs.  A plain def endpoint, served from the worker
\* thread pool: it does not wait for the event loop.
get_extraction_jobs ==
  /\ jobs' = [j \in JobIds |->
                IF Stalled(jobs[j]) THEN ForceComplete(jobs[j]) ELSE jobs[j]]
  /\ UNCHANGED <<tasks, logs, project, connections, tables, upstream, loop,
                 faults, svc, client>>

\* More than the stall window passes on the wall clock.  A coroutine that
\* holds the event loop between two awaits only talks to the database, and a
\* task that is ready to start is started as soon as the loop is free: time
\* passes while the loop is idle and every unfinished task has started.
Tick ==
  /\ loop.running = 0
  /\ \A j \in JobIds : tasks[j].pc = "start" => ~CanRun(j)
  /\ \E j \in JobIds : jobs[j].started_at = "fresh"
  /\ jobs' = [j \in JobIds |-> [jobs[j] EXCEPT !.started_at = "stale"]]
  /\ UNCHANGED <<tasks, logs, project, connections, tables, upstream, loop,
                 faults, svc, client>>

\* Somebody edits the upstream records (titles, names) in Azure DevOps
\* between two extractions.
EditUpstream ==
  /\ upstream.version < MaxEdits
  /\ \A j \in JobIds : tasks[j].pc \in {"done", "crashed"}
  /\ svc.pc = "idle"
  /\ upstream' = [upstream EXCEPT !.version = @ + 1]
  /\ UNCHANGED <<jobs, tasks, logs, project, connections, tables, loop,
                 faults, svc, client>>

(***************************************************************************)
(* Upstream (Azure DevOps) as seen through AzureDevOpsClient               *)
(***************************************************************************)

\* An upstream call either succeeds or fails (transport error, non-200);
\* the number of failures in one behaviour is bounded.
Outcome(ok) == ok \/ faults < MaxFaults

\* How the index call of a task went.
Answer(ok) == IF ok THEN "ok" ELSE "failed"

Count(ok) == IF ok THEN faults ELSE faults + 1

\* get_work_item_ids: the WIQL result ordered by id, [] on any failure.
get_work_item_ids(ok) ==
  IF ok THEN [x \in 1..upstream.work_items |-> x] ELSE << >>

\* get_work_item_details: one record per requested id, [] on any failure.
get_work_item_details(ids, ok) ==
  IF ok THEN [x \in 1..Len(ids) |-> [id |-> ids[x], title |-> upstream.version]]
        ELSE << >>

\* get_work_item_revisions / _comments / _attachments: the children of a
\* work item (one of each kind upstream), [] on any failure.
get_work_item_children(wid, ok) == IF ok THEN {1} ELSE {}

\* get_repositories: the repository list, [] on any failure.
get_repositories(ok) ==
  IF ok /\ upstream.populated THEN [x \in 1..NumRepos |-> [id |-> x, name |-> upstream.version]]
        ELSE << >>

\* get_repository_branches / _commits / _pull_requests.
get_repository_children(rid, ok) == IF ok THEN {1} ELSE {}

(***************************************************************************)
(* Task plumbing                                                           *)
(***************************************************************************)

\* What a task does next when the coroutine tk.fn returns or raises.
Return(tk, raised) ==
  CASE tk.top = "extract_classification" ->
         IF raised THEN [tk EXCEPT !.fn = tk.top, !.pc = "cl_except"]
         ELSE IF tk.stage = 1
           THEN [tk EXCEPT !.fn = "extract_iteration_paths", !.pc = "enter",
                           !.stage = 2]
           ELSE [tk EXCEPT !.fn = tk.top, !.pc = "cl_finish"]
    [] tk.top = "extract_all_metadata" ->
         [tk EXCEPT !.fn = tk.top,
                    !.pc = IF raised THEN "am_except" ELSE "am_progress"]
    [] OTHER ->
         [tk EXCEPT !.pc = IF raised THEN "crashed" ELSE "done"]

At(j, fn, pcs) ==
  /\ CanRun(j)
  /\ tasks[j].fn = fn
  /\ tasks[j].pc \in pcs

Step(j, tk) ==
  /\ tasks' = [tasks EXCEPT ![j] = tk]
  /\ loop' = [running |-> Loop(j, tk.pc), last |-> j,
              switches |-> loop.switches + IF Switch(j) THEN 1 ELSE 0]

Goto(j, pc) == Step(j, [tasks[j] EXCEPT !.pc = pc])

\* The coroutine leaves its straight path through an exception.
Raise(j, pc) == Step(j, [tasks[j] EXCEPT !.pc = pc, !.raised = TRUE])

\* db = get_db_session(): the coroutine holds one more database session.
Opened(tk) == [tk EXCEPT !.db = @ + 1]

\* db.close() in a finally block or an early return.
Closed(tk) == [tk EXCEPT !.db = @ - 1]

\* The first request makes the connector create its aiohttp session.
Requesting(tk) == [tk EXCEPT !.http = TRUE]

\* await ado_client.close(): the connector drops its aiohttp session.
HungUp(tk) == [tk EXCEPT !.http = FALSE]

Failed(job, msg) ==
  [job EXCEPT !.status = "failed", !.error_message = msg,
              !.completed_at = TRUE]

(***************************************************************************)
(* simulate_extraction                                                     *)
(***************************************************************************)

\* The coroutine reaches its first asyncio.sleep without touching the store.
sim_begin(j) ==
  /\ At(j, "simulate_extraction", Entry)
  /\ Step(j, Opened([tasks[j] EXCEPT !.pc = "sim_sleep",
                                     !.n = SimTotal(tasks[j].top)]))
  /\ UNCHANGED <<jobs, logs, project, connections, tables, upstream,
                 faults, svc, client>>

\* One turn of the while loop: after the sleep a random 1..5 items are
\* "extracted" and progress, extracted_items and, on the last turn, status
\* and completed_at are committed.
sim_step(j) ==
  /\ At(j, "simulate_extraction", {"sim_sleep"})
  /\ LET tk == tasks[j] IN
     \E d \in 1..Min(SimMaxStep, tk.n - tk.extracted) :
       LET e == tk.extracted + d
           last == e >= tk.n
           upd == [jobs[j] EXCEPT !.progress = PyProgress(e, tk.n),
                                  !.extracted_items = e]
       IN /\ jobs' = [jobs EXCEPT ![j] =
                        IF last THEN [upd EXCEPT !.status = "completed",
                                                 !.completed_at = TRUE]
                                ELSE upd]
          /\ Step(j, IF last
                        THEN Closed([tk EXCEPT !.extracted = e, !.pc = "done"])
                        ELSE [tk EXCEPT !.extracted = e, !.pc = "sim_sleep"])
  /\ UNCHANGED <<logs, project, connections, tables, upstream, faults,
                 svc, client>>

\* An exception inside the loop (the store is unreachable): the except
\* clause writes to the process log only, the finally clause closes the
\* session, and the coroutine returns.
sim_raise(j) ==
  /\ At(j, "simulate_extraction", {"sim_sleep"})
  /\ faults < MaxFaults
  /\ faults' = faults + 1
  /\ Step(j, Closed([tasks[j] EXCEPT !.pc = "done",
                                    !.raised = TRUE]))
  /\ UNCHANGED <<jobs, logs, project, connections, tables, upstream, svc,
                 client>>

(***************************************************************************)
(* extract_work_items                                                      *)
(***************************************************************************)

ChildRows(parent, keys) == SetToBag({[parent |-> parent, key |-> c] : c \in keys})

\* db.query(Child).filter(Child.parent_id == parent).delete()
DeleteChildren(bag, parent) ==
  [r \in {x \in DOMAIN bag : x.parent # parent} |-> bag[r]]

ChildrenOf(bag, parent) == {x \in DOMAIN bag : x.parent = parent}

WorkItemMatches(p, ext) ==
  {r \in work_items : r.project_id = p /\ r.external_id = ext}

FirstRow(S) == CHOOSE r \in S : \A o \in S : r.id <= o.id

\* An upsert that skips the lookup of the existing row and always inserts.
UpsertWorkItemInsertOnly(rows, p, wi) ==
  rows \cup {[id |-> Cardinality(rows) + 1, project_id |-> p,
              external_id |-> wi.id, title |-> wi.title]}

\* The upsert of one work item record by (project_id, external_id).
UpsertWorkItem(rows, p, wi) ==
  LET found == {r \in rows : r.project_id = p /\ r.external_id = wi.id} IN
  IF found # {}
    THEN (rows \ {FirstRow(found)})
           \cup {[FirstRow(found) EXCEPT !.title = wi.title]}
    ELSE rows \cup {[id |-> Cardinality(rows) + 1, project_id |-> p,
                     external_id |-> wi.id, title |-> wi.title]}

\* The primary key of the row the upsert touched.
UpsertedId(rows, p, wi) ==
  LET found == {r \in rows : r.project_id = p /\ r.external_id = wi.id} IN
  IF found # {} THEN FirstRow(found).id ELSE Cardinality(rows) + 1

\* Connection lookup: a missing connection fails the job and returns.
wi_begin(j) ==
  /\ At(j, "extract_work_items", Entry)
  /\ \/ /\ project.connection_id \notin connections
        /\ jobs' = [jobs EXCEPT ![j] = Failed(@, "Connection not found")]
        /\ Step(j, Closed(Opened([tasks[j] EXCEPT !.pc = "done"])))
     \/ /\ project.connection_id \in connections
        /\ Step(j, Requesting(Opened([tasks[j] EXCEPT !.pc = "wi_index"])))
        /\ UNCHANGED jobs
  /\ UNCHANGED <<logs, project, connections, tables, upstream, faults,
                 svc, client>>

\* The index fetch returned.  get_work_item_ids catches every exception and
\* every non-200 answer itself, so the caller's except branch cannot run: a
\* failed fetch is an empty list here.
wi_index(j) ==
  /\ At(j, "extract_work_items", {"wi_index"})
  /\ \E ok \in BOOLEAN :
       /\ Outcome(ok)
       /\ faults' = Count(ok)
       /\ LET ids == get_work_item_ids(ok)
              total == Len(ids)
          IN \/ /\ total = 0
                /\ jobs' = [jobs EXCEPT ![j] =
                     [@ EXCEPT !.total_items = 0, !.status = "completed",
                               !.progress = 100, !.completed_at = TRUE]]
                /\ Step(j, HungUp(Closed([tasks[j] EXCEPT !.pc = "done",
                                                          !.index = Answer(ok)])))
             \/ /\ total > 0
                /\ jobs' = [jobs EXCEPT ![j].total_items = total]
                /\ Step(j, [tasks[j] EXCEPT !.pc = "wi_details", !.ids = ids,
                                            !.n = total, !.i = 0,
                                            !.extracted = 0,
                                            !.index = Answer(ok)])
  /\ UNCHANGED <<logs, project, connections, tables, upstream, svc, client>>

\* The detail fetch for work_item_ids[i:i+batch_size] returned.
wi_details(j) ==
  /\ At(j, "extract_work_items", {"wi_details"})
  /\ \E ok \in BOOLEAN :
       /\ Outcome(ok)
       /\ faults' = Count(ok)
       /\ LET tk == tasks[j]
              batch_ids == SubSeq(tk.ids, tk.i + 1, Min(tk.i + BatchSize, tk.n))
              got == get_work_item_details(batch_ids, ok)
          IN Step(j, [tk EXCEPT !.batch = got,
                                !.k = IF got = << >> THEN 0 ELSE 1,
                                !.pc = IF got = << >> THEN "wi_batch_end"
                                                      ELSE "wi_item"])
  /\ UNCHANGED <<jobs, logs, project, connections, tables, upstream, svc,
                 client>>

\* Upsert of the k-th record of the batch, then the stored revisions of the
\* item are deleted and the revisions are requested.
wi_item(j) ==
  /\ At(j, "extract_work_items", {"wi_item"})
  /\ LET tk == tasks[j]
         wi == tk.batch[tk.k]
         p == jobs[j].project_id
         dbid == UpsertedId(work_items, p, wi)
     IN /\ work_items' = UpsertWorkItem(work_items, p, wi)
        /\ revisions' = DeleteChildren(revisions, dbid)
        /\ Step(j, [tk EXCEPT !.dbid = dbid, !.pc = "wi_rev"])
  /\ UNCHANGED <<jobs, logs, project, connections, comments, attachments,
                 repositories, branches, commits, pull_requests, area_paths,
                 iteration_paths, meta_rows, pipelines, pipeline_runs,
                 upstream, faults, svc, client>>

\* The record cannot be mapped or stored (parse_datetime or the commit
\* raises): the top-level except marks the job failed and logs an ERROR row.
wi_item_raise(j) ==
  /\ At(j, "extract_work_items", {"wi_item"})
  /\ faults < MaxFaults
  /\ faults' = faults + 1
  /\ jobs' = [jobs EXCEPT ![j] = Failed(@, "exception")]
  /\ logs' = logs \cup {LogRow(j, "ERROR")}
  /\ Step(j, HungUp(Closed([tasks[j] EXCEPT !.pc = "done",
                                           !.raised = TRUE])))
  /\ UNCHANGED <<project, connections, tables, upstream, svc, client>>

\* Revisions returned: store them, clear the stored comments, ask for comments.
wi_rev(j) ==
  /\ At(j, "extract_work_items", {"wi_rev"})
  /\ \E ok \in BOOLEAN :
       /\ Outcome(ok)
       /\ faults' = Count(ok)
       /\ LET tk == tasks[j] IN
          /\ revisions' = revisions (+)
               ChildRows(tk.dbid, get_work_item_children(tk.batch[tk.k].id, ok))
          /\ comments' = DeleteChildren(comments, tk.dbid)
  /\ Goto(j, "wi_com")
  /\ UNCHANGED <<jobs, logs, project, connections, work_items, attachments,
                 repositories, branches, commits, pull_requests, area_paths,
                 iteration_paths, meta_rows, pipelines, pipeline_runs,
                 upstream, svc, client>>

\* Comments returned: store them, clear the stored attachments, ask for them.
wi_com(j) ==
  /\ At(j, "extract_work_items", {"wi_com"})
  /\ \E ok \in BOOLEAN :
       /\ Outcome(ok)
       /\ faults' = Count(ok)
       /\ LET tk == tasks[j] IN
          /\ comments' = comments (+)
               ChildRows(tk.dbid, get_work_item_children(tk.batch[tk.k].id, ok))
          /\ attachments' = DeleteChildren(attachments, tk.dbid)
  /\ Goto(j, "wi_att")
  /\ UNCHANGED <<jobs, logs, project, connections, work_items, revisions,
                 repositories, branches, commits, pull_requests, area_paths,
                 iteration_paths, meta_rows, pipelines, pipeline_runs,
                 upstream, svc, client>>

\* Attachments returned: store them.  The fetch of the details asks for
\* named fields only, so a record never carries `relations` and that block
\* is skipped.  The record is counted; the loop moves to the next record of
\* the batch or to the end of the batch.
wi_att(j) ==
  /\ At(j, "extract_work_items", {"wi_att"})
  /\ \E ok \in BOOLEAN :
       /\ Outcome(ok)
       /\ faults' = Count(ok)
       /\ LET tk == tasks[j] IN
          /\ attachments' = attachments (+)
               ChildRows(tk.dbid, get_work_item_children(tk.batch[tk.k].id, ok))
          /\ Step(j, [tk EXCEPT !.extracted = @ + 1,
                                !.k = IF tk.k < Len(tk.batch) THEN @ + 1 ELSE @,
                                !.pc = IF tk.k < Len(tk.batch)
                                         THEN "wi_item" ELSE "wi_batch_end"])
  /\ UNCHANGED <<jobs, logs, project, connections, work_items, revisions,
                 comments, repositories, branches, commits, pull_requests,
                 area_paths, iteration_paths, meta_rows, pipelines,
                 pipeline_runs, upstream, svc, client>>

\* End of a batch: progress and extracted_items are written, an INFO row is
\* logged, and the task sleeps.
wi_batch_end(j) ==
  /\ At(j, "extract_work_items", {"wi_batch_end"})
  /\ LET tk == tasks[j] IN
       jobs' = [jobs EXCEPT ![j] =
                  [@ EXCEPT !.progress = PyProgress(tk.extracted, tk.n),
                            !.extracted_items = tk.extracted]]
  /\ logs' = logs \cup {LogRow(j, "INFO")}
  /\ Goto(j, "wi_sleep")
  /\ UNCHANGED <<project, connections, tables, upstream, faults, svc, client>>

\* Seeded fault: the loop over the batches is left after its first turn.
wi_sleep_first_batch_only(j) ==
  /\ At(j, "extract_work_items", {"wi_sleep"})
  /\ jobs' = [jobs EXCEPT ![j] =
                [@ EXCEPT !.status = "completed", !.completed_at = TRUE]]
  /\ project' = [project EXCEPT !.work_item_count = tasks[j].n]
  /\ Step(j, HungUp(Closed([tasks[j] EXCEPT !.pc = "done"])))
  /\ UNCHANGED <<logs, connections, tables, upstream, faults, svc, client>>

\* The sleep returned: the next batch is requested, or the loop is over and
\* the job is marked completed (status and completed_at only) and the
\* project's work item count is set to the index total.
wi_sleep(j) ==
  /\ At(j, "extract_work_items", {"wi_sleep"})
  /\ LET tk == tasks[j] IN
       \/ /\ tk.i + BatchSize < tk.n
          /\ Step(j, [tk EXCEPT !.i = @ + BatchSize, !.pc = "wi_details"])
          /\ UNCHANGED <<jobs, project, pipelines, pipeline_runs>>
       \/ /\ tk.i + BatchSize >= tk.n
          /\ jobs' = [jobs EXCEPT ![j] =
                        [@ EXCEPT !.status = "completed", !.completed_at = TRUE]]
          /\ project' = [project EXCEPT !.work_item_count = tk.n]
          /\ Step(j, HungUp(Closed([tasks[j] EXCEPT !.pc = "done"])))
  /\ UNCHANGED <<logs, connections, tables, upstream, faults, svc, client>>

(***************************************************************************)
(* extract_repositories                                                    *)
(***************************************************************************)

UpsertRepository(rows, p, repo) ==
  LET found == {r \in rows : r.project_id = p /\ r.external_id = repo.id} IN
  IF found # {}
    THEN (rows \ {FirstRow(found)})
           \cup {[FirstRow(found) EXCEPT !.name = repo.name]}
    ELSE rows \cup {[id |-> Cardinality(rows) + 1, project_id |-> p,
                     external_id |-> repo.id, name |-> repo.name]}

UpsertedRepoId(rows, p, repo) ==
  LET found == {r \in rows : r.project_id = p /\ r.external_id = repo.id} IN
  IF found # {} THEN FirstRow(found).id ELSE Cardinality(rows) + 1

rp_begin(j) ==
  /\ At(j, "extract_repositories", Entry)
  /\ \/ /\ project.connection_id \notin connections
        /\ jobs' = [jobs EXCEPT ![j] = Failed(@, "Connection not found")]
        /\ Step(j, Closed(Opened([tasks[j] EXCEPT !.pc = "done"])))
     \/ /\ project.connection_id \in connections
        /\ Step(j, Requesting(Opened([tasks[j] EXCEPT !.pc = "rp_index"])))
        /\ UNCHANGED jobs
  /\ UNCHANGED <<logs, project, connections, tables, upstream, faults,
                 svc, client>>

\* The repository list returned; get_repositories returns [] on any failure.
rp_index(j) ==
  /\ At(j, "extract_repositories", {"rp_index"})
  /\ \E ok \in BOOLEAN :
       /\ Outcome(ok)
       /\ faults' = Count(ok)
       /\ LET got == get_repositories(ok)
              total == Len(got)
          IN \/ /\ total = 0
                /\ jobs' = [jobs EXCEPT ![j] =
                     [@ EXCEPT !.total_items = 0, !.status = "completed",
                               !.progress = 100, !.completed_at = TRUE]]
                /\ Step(j, HungUp(Closed([tasks[j] EXCEPT !.pc = "done",
                                                          !.index = Answer(ok)])))
             \/ /\ total > 0
                /\ jobs' = [jobs EXCEPT ![j].total_items = total]
                /\ Step(j, [tasks[j] EXCEPT !.pc = "rp_item", !.batch = got,
                                            !.n = total, !.k = 1,
                                            !.extracted = 0,
                                            !.index = Answer(ok)])
  /\ UNCHANGED <<logs, project, connections, tables, upstream, svc, client>>

\* Upsert of the k-th repository, INFO row, then the branches are requested.
rp_item(j) ==
  /\ At(j, "extract_repositories", {"rp_item"})
  /\ LET tk == tasks[j]
         repo == tk.batch[tk.k]
         p == jobs[j].project_id
     IN /\ repositories' = UpsertRepository(repositories, p, repo)
        /\ Step(j, [tk EXCEPT !.dbid = UpsertedRepoId(repositories, p, repo),
                              !.pc = "rp_branches"])
  /\ logs' = logs \cup {LogRow(j, "INFO")}
  /\ UNCHANGED <<jobs, project, connections, work_items, revisions, comments,
                 attachments, branches, commits, pull_requests, area_paths,
                 iteration_paths, meta_rows, pipelines, pipeline_runs,
                 upstream, faults, svc, client>>

rp_item_raise(j) ==
  /\ At(j, "extract_repositories", {"rp_item"})
  /\ faults < MaxFaults
  /\ faults' = faults + 1
  /\ jobs' = [jobs EXCEPT ![j] = Failed(@, "exception")]
  /\ logs' = logs \cup {LogRow(j, "ERROR")}
  /\ Step(j, HungUp(Closed([tasks[j] EXCEPT !.pc = "done",
                                           !.raised = TRUE])))
  /\ UNCHANGED <<project, connections, tables, upstream, svc, client>>

\* Branches returned: the stored branches are replaced by the fetched ones.
rp_branches(j) ==
  /\ At(j, "extract_repositories", {"rp_branches"})
  /\ \E ok \in BOOLEAN :
       /\ Outcome(ok)
       /\ faults' = Count(ok)
       /\ LET tk == tasks[j] IN
          branches' = DeleteChildren(branches, tk.dbid) (+)
            ChildRows(tk.dbid, get_repository_children(tk.batch[tk.k].id, ok))
  /\ logs' = logs \cup {LogRow(j, "INFO")}
  /\ Goto(j, "rp_commits")
  /\ UNCHANGED <<jobs, project, connections, work_items, revisions, comments,
                 attachments, repositories, commits, pull_requests,
                 area_paths, iteration_paths, meta_rows, pipelines,
                 pipeline_runs, upstream, svc, client>>

rp_commits(j) ==
  /\ At(j, "extract_repositories", {"rp_commits"})
  /\ \E ok \in BOOLEAN :
       /\ Outcome(ok)
       /\ faults' = Count(ok)
       /\ LET tk == tasks[j] IN
          commits' = DeleteChildren(commits, tk.dbid) (+)
            ChildRows(tk.dbid, get_repository_children(tk.batch[tk.k].id, ok))
  /\ logs' = logs \cup {LogRow(j, "INFO")}
  /\ Goto(j, "rp_prs")
  /\ UNCHANGED <<jobs, project, connections, work_items, revisions, comments,
                 attachments, repositories, branches, pull_requests,
                 area_paths, iteration_paths, meta_rows, pipelines,
                 pipeline_runs, upstream, svc, client>>

\* Pull requests returned and stored; the repository is counted and progress
\* and extracted_items are written; the task sleeps.
rp_prs(j) ==
  /\ At(j, "extract_repositories", {"rp_prs"})
  /\ \E ok \in BOOLEAN :
       /\ Outcome(ok)
       /\ faults' = Count(ok)
       /\ LET tk == tasks[j] IN
          /\ pull_requests' = DeleteChildren(pull_requests, tk.dbid) (+)
               ChildRows(tk.dbid, get_repository_children(tk.batch[tk.k].id, ok))
          /\ jobs' = [jobs EXCEPT ![j] =
               [@ EXCEPT !.progress = PyProgress(tk.extracted + 1, tk.n),
                         !.extracted_items = tk.extracted + 1]]
          /\ Step(j, [tk EXCEPT !.extracted = @ + 1, !.pc = "rp_sleep"])
  /\ logs' = logs \cup {LogRow(j, "INFO")}
  /\ UNCHANGED <<project, connections, work_items, revisions, comments,
                 attachments, repositories, branches, commits, area_paths,
                 iteration_paths, meta_rows, pipelines, pipeline_runs,
                 upstream, svc, client>>

rp_sleep(j) ==
  /\ At(j, "extract_repositories", {"rp_sleep"})
  /\ LET tk == tasks[j] IN
       \/ /\ tk.k < tk.n
          /\ Step(j, [tk EXCEPT !.k = @ + 1, !.pc = "rp_item"])
          /\ UNCHANGED <<jobs, project, pipelines, pipeline_runs>>
       \/ /\ tk.k >= tk.n
          /\ jobs' = [jobs EXCEPT ![j] =
                        [@ EXCEPT !.status = "completed", !.completed_at = TRUE]]
          /\ project' = [project EXCEPT !.repo_count = tk.n]
          /\ Step(j, HungUp(Closed([tasks[j] EXCEPT !.pc = "done"])))
  /\ UNCHANGED <<logs, connections, tables, upstream, faults, svc, client>>

(***************************************************************************)
(* Classification nodes: connector side                                    *)
(***************************************************************************)

Sep == "\\"

\* The classification tree Azure DevOps answers with: a root named after
\* the project with one child; a leaf carries no `children` key.  For a
\* project without records the answer is an object without a name.
AreaTree ==
  IF upstream.populated
    THEN [id |-> 1, name |-> "P",
          children |-> <<[id |-> 2 + upstream.version, name |-> "A"]>>]
    ELSE [count |-> 0]

IterationTree ==
  IF upstream.populated
    THEN [id |-> 1, name |-> "P",
          children |-> <<[id |-> 2 + upstream.version, name |-> "S"]>>]
    ELSE [count |-> 0]

NodeNames == {"P", "A", "S"}

\* Every path of at most two segments over NodeNames.
KnownPaths == NodeNames \cup {a \o Sep \o b : a \in NodeNames, b \in NodeNames}

RECURSIVE flatten_classification_nodes(_, _, _)
RECURSIVE flatten_children(_, _, _)

\* _flatten_classification_nodes: pre-order, path = parent_path\name.
flatten_classification_nodes(node, node_type, parent_path) ==
  IF "name" \notin DOMAIN node THEN << >>
  ELSE LET name == node.name
           path == IF parent_path # "" THEN parent_path \o Sep \o name
                                       ELSE name
           kids == IF "children" \in DOMAIN node THEN node.children ELSE << >>
       IN <<[id |-> IF "id" \in DOMAIN node THEN node.id ELSE 0,
             name |-> name, path |-> path, type |-> node_type,
             has_children |-> kids # << >>]>>
          \o flatten_children(kids, node_type, path)

flatten_children(kids, node_type, path) ==
  IF kids = << >> THEN << >>
  ELSE flatten_classification_nodes(Head(kids), node_type, path)
         \o flatten_children(Tail(kids), node_type, path)

\* get_area_paths / get_iteration_paths: the flattened tree, [] on failure.
get_area_paths(ok) ==
  IF ok THEN flatten_classification_nodes(AreaTree, "area", "") ELSE << >>

get_iteration_paths(ok) ==
  IF ok THEN flatten_classification_nodes(IterationTree, "iteration", "")
        ELSE << >>

\* path.rsplit('\\', 1)[0] if '\\' in path else ''
ParentPath(path) ==
  IF \E q \in KnownPaths, n \in NodeNames : path = q \o Sep \o n
    THEN CHOOSE q \in KnownPaths : \E n \in NodeNames : path = q \o Sep \o n
    ELSE ""

(***************************************************************************)
(* extract_area_paths                                                      *)
(***************************************************************************)

None == "None"

\* The row extract_area_paths / extract_iteration_paths build from a
\* flattened record: they read the keys parentPath and hasChildren, which the
\* flattened records do not have.
PathRow(p, rec) ==
  [project_id |-> p, external_id |-> rec.id, name |-> rec.name,
   path |-> rec.path, parent_path |-> None, has_children |-> FALSE]

\* The row the recovery code of extract_iteration_paths builds.
RebuiltRow(p, rec) ==
  [project_id |-> p, external_id |-> rec.id, name |-> rec.name,
   path |-> rec.path, parent_path |-> ParentPath(rec.path),
   has_children |-> rec.has_children]

One(r) == SetToBag({r})

\* Upsert by (project_id, path), one record after the other.
RECURSIVE UpsertPaths(_, _, _)
UpsertPaths(bag, p, recs) ==
  IF recs = << >> THEN bag
  ELSE LET rec == Head(recs)
           found == {r \in DOMAIN bag : r.project_id = p /\ r.path = rec.path}
           old == CHOOSE r \in found : TRUE
           next == IF found # {} THEN (bag (-) One(old)) (+) One(PathRow(p, rec))
                                 ELSE bag (+) One(PathRow(p, rec))
       IN UpsertPaths(next, p, Tail(recs))

\* query.filter(project_id == p).delete(), then one insert per record.
RECURSIVE InsertRebuilt(_, _, _)
InsertRebuilt(bag, p, recs) ==
  IF recs = << >> THEN bag
  ELSE InsertRebuilt(bag (+) One(RebuiltRow(p, Head(recs))), p, Tail(recs))

DeleteProject(bag, p) ==
  [r \in {x \in DOMAIN bag : x.project_id # p} |-> bag[r]]

\* The job is set to in_progress with a new started_at whatever its status
\* was; a missing connection then returns without another write.
ap_begin(j) ==
  /\ At(j, "extract_area_paths", Entry)
  /\ jobs' = [jobs EXCEPT ![j] =
                [@ EXCEPT !.status = "in_progress", !.started_at = "fresh"]]
  /\ \/ /\ project.connection_id \notin connections
        /\ Step(j, Return(Closed(Opened(tasks[j])), FALSE))
     \/ /\ project.connection_id \in connections
        /\ Step(j, Requesting(Opened([tasks[j] EXCEPT !.pc = "ap_index"])))
  /\ UNCHANGED <<logs, project, connections, tables, upstream, faults,
                 svc, client>>

\* The area paths returned; total_items is committed.
ap_index(j) ==
  /\ At(j, "extract_area_paths", {"ap_index"})
  /\ \E ok \in BOOLEAN :
       /\ Outcome(ok)
       /\ faults' = Count(ok)
       /\ LET got == get_area_paths(ok) IN
          /\ jobs' = [jobs EXCEPT ![j].total_items = Len(got)]
          /\ Step(j, HungUp([tasks[j] EXCEPT !.pc = "ap_store", !.batch = got,
                                             !.n = Len(got), !.index = Answer(ok)]))
  /\ UNCHANGED <<logs, project, connections, tables, upstream, svc, client>>

\* The commit of total_items fails: the rows' except block marks the job
\* failed (status and completed_at; `message` is not a column), logs an
\* ERROR row and re-raises.
ap_raise(j) ==
  /\ At(j, "extract_area_paths", {"ap_index"})
  /\ faults < MaxFaults
  /\ faults' = faults + 1
  /\ jobs' = [jobs EXCEPT ![j] =
                [@ EXCEPT !.status = "failed", !.completed_at = TRUE]]
  /\ logs' = logs \cup {LogRow(j, "ERROR")}
  /\ Step(j, [Return(HungUp(Closed(tasks[j])), TRUE) EXCEPT !.raised = TRUE])
  /\ UNCHANGED <<project, connections, tables, upstream, svc, client>>

\* The rows are upserted and committed together with the progress of the
\* last record, capped at 99; then the project's area_path_count.
ap_store(j) ==
  /\ At(j, "extract_area_paths", {"ap_store"})
  /\ LET tk == tasks[j] IN
     /\ area_paths' = UpsertPaths(area_paths, jobs[j].project_id, tk.batch)
     /\ jobs' = [jobs EXCEPT ![j].progress =
                   IF tk.n > 0 THEN Min(PyProgress(tk.n, tk.n), 99) ELSE @]
     /\ project' = [project EXCEPT !.area_path_count = tk.n]
  /\ Goto(j, "ap_finish")
  /\ UNCHANGED <<logs, connections, work_items, revisions, comments,
                 attachments, repositories, branches, commits, pull_requests,
                 iteration_paths, meta_rows, pipelines, pipeline_runs,
                 upstream, faults, svc, client>>

ap_finish(j) ==
  /\ At(j, "extract_area_paths", {"ap_finish"})
  /\ jobs' = [jobs EXCEPT ![j] =
                [@ EXCEPT !.status = "completed", !.completed_at = TRUE,
                          !.progress = 100]]
  /\ logs' = logs \cup {LogRow(j, "INFO")}
  /\ Step(j, Return(Closed(tasks[j]), FALSE))
  /\ UNCHANGED <<project, connections, tables, upstream, faults, svc, client>>

(***************************************************************************)
(* extract_iteration_paths                                                 *)
(***************************************************************************)

ip_begin(j) ==
  /\ At(j, "extract_iteration_paths", Entry)
  /\ jobs' = [jobs EXCEPT ![j] =
                [@ EXCEPT !.status = "in_progress", !.started_at = "fresh"]]
  /\ \/ /\ project.connection_id \notin connections
        /\ Step(j, Return(Closed(Opened(tasks[j])), FALSE))
     \/ /\ project.connection_id \in connections
        /\ Step(j, Requesting(Opened([tasks[j] EXCEPT !.pc = "ip_index"])))
  /\ UNCHANGED <<logs, project, connections, tables, upstream, faults,
                 svc, client>>

\* The iteration paths returned; total_items is committed.
ip_index(j) ==
  /\ At(j, "extract_iteration_paths", {"ip_index"})
  /\ \E ok \in BOOLEAN :
       /\ Outcome(ok)
       /\ faults' = Count(ok)
       /\ LET got == get_iteration_paths(ok) IN
          /\ jobs' = [jobs EXCEPT ![j].total_items = Len(got)]
          /\ Step(j, HungUp([tasks[j] EXCEPT !.pc = "ip_store", !.batch = got,
                                             !.n = Len(got), !.index = Answer(ok)]))
  /\ UNCHANGED <<logs, project, connections, tables, upstream, svc, client>>

\* The commit of total_items fails: the session is closed and the outer
\* except clause marks the job failed before it starts its own extraction.
ip_raise(j) ==
  /\ At(j, "extract_iteration_paths", {"ip_index"})
  /\ faults < MaxFaults
  /\ faults' = faults + 1
  /\ jobs' = [jobs EXCEPT ![j] = Failed(@, "exception")]
  /\ Step(j, Requesting(Closed(Opened(Closed([tasks[j] EXCEPT !.pc = "ip_h_area",
                                                             !.raised = TRUE])))))
  /\ UNCHANGED <<logs, project, connections, tables, upstream, svc, client>>

\* The rows are upserted and committed.  The completion block then assigns
\* status, completed_at and progress and builds job.message from the name
\* area_path_count, which this function never binds: NameError.  The
\* assignments are still pending and are dropped when the session is closed.
ip_store(j) ==
  /\ At(j, "extract_iteration_paths", {"ip_store"})
  /\ iteration_paths' =
       UpsertPaths(iteration_paths, jobs[j].project_id, tasks[j].batch)
  /\ Step(j, Closed([tasks[j] EXCEPT !.pc = "ip_except",
                                    !.raised = TRUE]))
  /\ UNCHANGED <<jobs, logs, project, connections, work_items, revisions,
                 comments, attachments, repositories, branches, commits,
                 pull_requests, area_paths, meta_rows, pipelines,
                 pipeline_runs, upstream, faults, svc, client>>

\* except Exception: the job is marked failed with str(e) in a new session,
\* and the handler goes on to fetch the area paths.
ip_except(j) ==
  /\ At(j, "extract_iteration_paths", {"ip_except"})
  /\ jobs' = [jobs EXCEPT ![j] =
                Failed(@, "name 'area_path_count' is not defined")]
  /\ Step(j, Requesting(Closed(Opened([tasks[j] EXCEPT !.pc = "ip_h_area"]))))
  /\ UNCHANGED <<logs, project, connections, tables, upstream, faults,
                 svc, client>>

\* Inside the except clause: the project's area paths are deleted and
\* rebuilt from a new fetch.
ip_h_area(j) ==
  /\ At(j, "extract_iteration_paths", {"ip_h_area"})
  /\ \E ok \in BOOLEAN :
       /\ Outcome(ok)
       /\ faults' = Count(ok)
       /\ LET p == jobs[j].project_id IN
          area_paths' =
            InsertRebuilt(DeleteProject(area_paths, p), p, get_area_paths(ok))
  /\ logs' = logs \cup {LogRow(j, "INFO")}
  /\ Step(j, Opened([tasks[j] EXCEPT !.pc = "ip_h_iter"]))
  /\ UNCHANGED <<jobs, project, connections, work_items, revisions, comments,
                 attachments, repositories, branches, commits, pull_requests,
                 iteration_paths, meta_rows, pipelines, pipeline_runs,
                 upstream, svc, client>>

\* Inside the except clause: the same for the iteration paths.
ip_h_iter(j) ==
  /\ At(j, "extract_iteration_paths", {"ip_h_iter"})
  /\ \E ok \in BOOLEAN :
       /\ Outcome(ok)
       /\ faults' = Count(ok)
       /\ LET p == jobs[j].project_id IN
          iteration_paths' =
            InsertRebuilt(DeleteProject(iteration_paths, p), p,
                          get_iteration_paths(ok))
  /\ logs' = logs \cup {LogRow(j, "INFO")}
  /\ Goto(j, "ip_h_finish")
  /\ UNCHANGED <<jobs, project, connections, work_items, revisions, comments,
                 attachments, repositories, branches, commits, pull_requests,
                 area_paths, meta_rows, pipelines, pipeline_runs, upstream,
                 svc, client>>

\* Inside the except clause: "Mark job as completed" writes status and
\* completed_at; the client session is then closed.
ip_h_finish(j) ==
  /\ At(j, "extract_iteration_paths", {"ip_h_finish"})
  /\ jobs' = [jobs EXCEPT ![j] =
                [@ EXCEPT !.status = "completed", !.completed_at = TRUE]]
  /\ Goto(j, "ip_close")
  /\ UNCHANGED <<logs, project, connections, tables, upstream, faults,
                 svc, client>>

ip_close(j) ==
  /\ At(j, "extract_iteration_paths", {"ip_close"})
  /\ Step(j, Return(HungUp(tasks[j]), FALSE))
  /\ UNCHANGED <<jobs, logs, project, connections, tables, upstream,
                 faults, svc, client>>

(***************************************************************************)
(* extract_classification                                                  *)
(***************************************************************************)

\* Both sub-extractions returned: completed, progress 100.
cl_finish(j) ==
  /\ At(j, "extract_classification", {"cl_finish"})
  /\ jobs' = [jobs EXCEPT ![j] =
                [@ EXCEPT !.status = "completed", !.completed_at = TRUE,
                          !.progress = 100]]
  /\ Step(j, Opened([tasks[j] EXCEPT !.pc = "done"]))
  /\ UNCHANGED <<logs, project, connections, tables, upstream, faults,
                 svc, client>>

\* A sub-extraction raised: failed (status and completed_at).
cl_except(j) ==
  /\ At(j, "extract_classification", {"cl_except"})
  /\ jobs' = [jobs EXCEPT ![j] =
                [@ EXCEPT !.status = "failed", !.completed_at = TRUE]]
  /\ Step(j, Opened([tasks[j] EXCEPT !.pc = "done"]))
  /\ UNCHANGED <<logs, project, connections, tables, upstream, faults,
                 svc, client>>

(***************************************************************************)
(* extract_all_metadata                                                    *)
(***************************************************************************)

am_begin(j) ==
  /\ At(j, "extract_all_metadata", {"start"})
  /\ jobs' = [jobs EXCEPT ![j] =
                [@ EXCEPT !.status = "in_progress", !.started_at = "fresh",
                          !.total_items = AllMetadataTotal, !.progress = 0]]
  /\ Step(j, Opened([tasks[j] EXCEPT !.fn = MetadataSteps[1], !.pc = "enter",
                                     !.stage = 1]))
  /\ UNCHANGED <<logs, project, connections, tables, upstream, faults,
                 svc, client>>

\* A sub-extraction returned: its progress mark is written and the next
\* one is awaited.
am_progress(j) ==
  /\ At(j, "extract_all_metadata", {"am_progress"})
  /\ LET tk == tasks[j] IN
     /\ jobs' = [jobs EXCEPT ![j].progress = MetadataProgress[tk.stage]]
     /\ IF tk.stage < Len(MetadataSteps)
          THEN Step(j, [tk EXCEPT !.fn = MetadataSteps[tk.stage + 1],
                                  !.pc = "enter", !.stage = @ + 1])
          ELSE Goto(j, "am_finish")
  /\ UNCHANGED <<logs, project, connections, tables, upstream, faults,
                 svc, client>>

am_finish(j) ==
  /\ At(j, "extract_all_metadata", {"am_finish"})
  /\ jobs' = [jobs EXCEPT ![j] =
                [@ EXCEPT !.status = "completed", !.completed_at = TRUE,
                          !.progress = 100]]
  /\ logs' = logs \cup {LogRow(j, "INFO")}
  /\ Step(j, Closed([tasks[j] EXCEPT !.pc = "done"]))
  /\ UNCHANGED <<project, connections, tables, upstream, faults, svc, client>>

\* A sub-extraction raised: failed, ERROR row, and the exception leaves the
\* task.
am_except(j) ==
  /\ At(j, "extract_all_metadata", {"am_except"})
  /\ jobs' = [jobs EXCEPT ![j] =
                [@ EXCEPT !.status = "failed", !.completed_at = TRUE]]
  /\ logs' = logs \cup {LogRow(j, "ERROR")}
  /\ Step(j, Closed([tasks[j] EXCEPT !.pc = "crashed"]))
  /\ UNCHANGED <<project, connections, tables, upstream, faults, svc, client>>

(***************************************************************************)
(* extract_custom_fields, extract_users, extract_board_columns,            *)
(* extract_wiki_pages: the records are literals in the code                *)
(***************************************************************************)

MetaFns ==
  {"extract_custom_fields", "extract_users", "extract_board_columns",
   "extract_wiki_pages"}

\* len(fields), len(users), len(board_columns), len(wiki_pages)
MetaCount(fn) ==
  CASE fn = "extract_custom_fields" -> NumCustomFields
    [] fn = "extract_users"         -> NumUsers
    [] fn = "extract_board_columns" -> NumBoardColumns
    [] OTHER                        -> NumWikiPages

\* Records between two commits inside the loop: `% 10 == 0` for custom
\* fields and users, every record for board columns and wiki pages.
CommitEvery(fn) ==
  IF fn \in {"extract_custom_fields", "extract_users"} THEN 10 ELSE 1

CountField(fn) ==
  CASE fn = "extract_custom_fields" -> "custom_field_count"
    [] fn = "extract_users"         -> "user_count"
    [] fn = "extract_board_columns" -> "board_column_count"
    [] OTHER                        -> "wiki_page_count"

\* Upsert of the literal records numbered by K, by their natural key; an
\* update rewrites the same literal values.
UpsertKeys(bag, p, K) ==
  bag (+) SetToBag({r \in {[project_id |-> p, key |-> x] : x \in K} :
                     r \notin DOMAIN bag})

AtMeta(j, pcs) ==
  /\ CanRun(j)
  /\ tasks[j].fn \in MetaFns
  /\ tasks[j].pc \in pcs

meta_begin(j) ==
  /\ AtMeta(j, Entry)
  /\ jobs' = [jobs EXCEPT ![j] =
                [@ EXCEPT !.status = "in_progress", !.started_at = "fresh"]]
  /\ \/ /\ project.connection_id \notin connections
        /\ Step(j, Return(Closed(Opened(tasks[j])), FALSE))
     \/ /\ project.connection_id \in connections
        /\ Step(j, Opened([tasks[j] EXCEPT !.pc = "meta_total"]))
  /\ UNCHANGED <<logs, project, connections, tables, upstream, faults,
                 svc, client>>

meta_total(j) ==
  /\ AtMeta(j, {"meta_total"})
  /\ LET n == MetaCount(tasks[j].fn) IN
     /\ jobs' = [jobs EXCEPT ![j].total_items = n]
     /\ Step(j, [tasks[j] EXCEPT !.pc = "meta_store", !.n = n, !.k = 0])
  /\ UNCHANGED <<logs, project, connections, tables, upstream, faults,
                 svc, client>>

\* The commit of total_items fails: failed (status and completed_at), an
\* ERROR row, and the exception is re-raised.
meta_raise(j) ==
  /\ AtMeta(j, {"meta_total"})
  /\ faults < MaxFaults
  /\ faults' = faults + 1
  /\ jobs' = [jobs EXCEPT ![j] =
                [@ EXCEPT !.status = "failed", !.completed_at = TRUE]]
  /\ logs' = logs \cup {LogRow(j, "ERROR")}
  /\ Step(j, [Return(Closed(tasks[j]), TRUE) EXCEPT !.raised = TRUE])
  /\ UNCHANGED <<project, connections, tables, upstream, svc, client>>

\* The records up to the next commit are upserted with the progress of the
\* last of them, capped at 99; after the last record the project's counter
\* is written.
meta_store(j) ==
  /\ AtMeta(j, {"meta_store"})
  /\ LET tk == tasks[j]
         k2 == Min(tk.k + CommitEvery(tk.fn), tk.n)
     IN /\ meta_rows' = [meta_rows EXCEPT ![tk.fn] =
                           UpsertKeys(@, jobs[j].project_id, (tk.k + 1)..k2)]
        /\ jobs' = [jobs EXCEPT ![j].progress = Min(PyProgress(k2, tk.n), 99)]
        /\ project' = IF k2 = tk.n
                        THEN [project EXCEPT ![CountField(tk.fn)] = tk.n]
                        ELSE project
        /\ Step(j, [tk EXCEPT !.k = k2,
                              !.pc = IF k2 = tk.n THEN "meta_finish"
                                                  ELSE "meta_store"])
  /\ UNCHANGED <<logs, connections, work_items, revisions, comments,
                 attachments, repositories, branches, commits, pull_requests,
                 area_paths, iteration_paths, pipelines, pipeline_runs,
                 upstream, faults, svc, client>>

meta_finish(j) ==
  /\ AtMeta(j, {"meta_finish"})
  /\ jobs' = [jobs EXCEPT ![j] =
                [@ EXCEPT !.status = "completed", !.completed_at = TRUE,
                          !.progress = 100]]
  /\ logs' = logs \cup {LogRow(j, "INFO")}
  /\ Step(j, Return(Closed(tasks[j]), FALSE))
  /\ UNCHANGED <<project, connections, tables, upstream, faults, svc, client>>

(***************************************************************************)
(* The API process                                                         *)
(***************************************************************************)

TaskStep(j) ==
  \/ sim_begin(j) \/ sim_step(j) \/ sim_raise(j)
  \/ wi_begin(j) \/ wi_index(j) \/ wi_details(j) \/ wi_item(j)
  \/ wi_item_raise(j) \/ wi_rev(j) \/ wi_com(j) \/ wi_att(j)
  \/ wi_batch_end(j) \/ wi_sleep(j)
  \/ rp_begin(j) \/ rp_index(j) \/ rp_item(j) \/ rp_item_raise(j)
  \/ rp_branches(j) \/ rp_commits(j) \/ rp_prs(j) \/ rp_sleep(j)
  \/ ap_begin(j) \/ ap_index(j) \/ ap_raise(j) \/ ap_store(j) \/ ap_finish(j)
  \/ ip_begin(j) \/ ip_index(j) \/ ip_raise(j) \/ ip_store(j) \/ ip_except(j)
  \/ ip_h_area(j) \/ ip_h_iter(j) \/ ip_h_finish(j) \/ ip_close(j)
  \/ cl_finish(j) \/ cl_except(j)
  \/ am_begin(j) \/ am_progress(j) \/ am_finish(j) \/ am_except(j)
  \/ meta_begin(j) \/ meta_total(j) \/ meta_raise(j) \/ meta_store(j)
  \/ meta_finish(j)

Next ==
  \/ \E p \in ProjectIds, t \in ArtifactTypes : start_extraction(p, t)
  \/ \E j \in 1..MaxJobs : reextract_job(j)
  \/ get_extraction_jobs
  \/ Tick
  \/ EditUpstream
  \/ \E j \in 1..MaxJobs : TaskStep(j)

Spec == Init /\ [][Next]_vars

(***************************************************************************)
(* ExtractionService (services/extraction_service.py) with its own         *)
(* connector (services/ado_client.py).  It works on the same tables and    *)
(* is driven by a caller that awaits extract_project_data.                 *)
(***************************************************************************)

ServiceTypes == {"workitems", "repositories", "pipelines"}

\* The artifact_types arguments the caller passes.
ServiceRequests ==
  {<<t>> : t \in ServiceTypes} \cup {<<"workitems", "pipelines">>}

\* A job of the service has no asyncio task of the API process.
NoTask == [NewTask("ExtractionService") EXCEPT !.pc = "done"]

\* _create_extraction_job: status "running".
ServiceJob(p, t) == [NewJob(p, t, 0) EXCEPT !.status = "running"]

\* services/ado_client.py get_work_items: ORDER BY [System.Id] DESC, []
\* on any failure.
svc_get_work_items(ok) ==
  IF ok THEN [x \in 1..upstream.work_items |->
                [id |-> upstream.work_items + 1 - x,
                 title |-> upstream.version]]
        ELSE << >>

\* get_pipelines(...) + get_builds(...): each is [] on a failure of its own.
svc_get_pipelines(ok) ==
  IF ok /\ upstream.populated THEN <<[id |-> 1, name |-> upstream.version]>> ELSE << >>

svc_get_builds(ok) ==
  IF ok /\ upstream.populated THEN <<[id |-> 2, name |-> upstream.version]>> ELSE << >>

Failures(flags) == Cardinality({x \in DOMAIN flags : ~flags[x]})

extract_project_data(p, types) ==
  /\ svc.pc = "idle"
  /\ svc.runs < MaxRuns
  /\ svc' = [svc EXCEPT !.pc = "create", !.types = types, !.runs = @ + 1]
  /\ UNCHANGED <<jobs, tasks, logs, project, connections, tables, upstream,
                 loop, faults, client>>

\* Head of the loop over artifact_types: the next job is created, or the
\* call returns.
create_extraction_job ==
  /\ svc.pc = "create"
  /\ IF svc.types = << >>
       THEN /\ svc' = [svc EXCEPT !.pc = "idle"]
            /\ UNCHANGED <<jobs, tasks, logs>>
       ELSE /\ jobs' = Append(jobs, ServiceJob(1, Head(svc.types)))
            /\ tasks' = Append(tasks, NoTask)
            /\ logs' = logs \cup {LogRow(Len(jobs) + 1, "INFO")}
            /\ svc' = [svc EXCEPT !.pc = "fetch", !.job = Len(jobs) + 1]
  /\ UNCHANGED <<project, connections, tables, upstream, loop, faults,
                 client>>

\* The list of the artifact type is fetched and total_items committed.
svc_fetch ==
  /\ svc.pc = "fetch"
  /\ \E ok1, ok2 \in BOOLEAN :
       LET t == Head(svc.types)
           flags == IF t = "pipelines" THEN <<ok1, ok2>> ELSE <<ok1>>
           data == CASE t = "workitems"    -> svc_get_work_items(ok1)
                     [] t = "repositories" -> get_repositories(ok1)
                     [] OTHER -> svc_get_pipelines(ok1) \o svc_get_builds(ok2)
       IN /\ t # "pipelines" => ok2
          /\ faults + Failures(flags) <= MaxFaults
          /\ faults' = faults + Failures(flags)
          /\ jobs' = [jobs EXCEPT ![svc.job].total_items = Len(data)]
          /\ svc' = [svc EXCEPT !.data = data, !.i = 1,
                                !.pc = IF data = << >> THEN "complete"
                                                       ELSE "item"]
  /\ UNCHANGED <<tasks, logs, project, connections, tables, upstream, loop,
                 client>>

\* The commit of total_items fails: the exception leaves _extract_* and
\* extract_project_data calls _fail_job.
svc_fetch_raise ==
  /\ svc.pc = "fetch"
  /\ faults < MaxFaults
  /\ faults' = faults + 1
  /\ svc' = [svc EXCEPT !.pc = "fail"]
  /\ UNCHANGED <<jobs, tasks, logs, project, connections, tables, upstream,
                 loop, client>>

SvcAdvance ==
  [svc EXCEPT !.i = @ + 1,
              !.pc = IF svc.i < Len(svc.data) THEN "item" ELSE "complete"]

SvcProgress(job) ==
  [job EXCEPT !.extracted_items = svc.i,
              !.progress = PyProgress(svc.i, job.total_items)]

\* _extract_work_items, one turn of the loop: an existing row is skipped
\* (`continue`); a new one is inserted with its comments, attachments and
\* revisions, and extracted_items and progress are written.
svc_work_item ==
  /\ svc.pc = "item"
  /\ Head(svc.types) = "workitems"
  /\ LET wi == svc.data[svc.i]
         p == jobs[svc.job].project_id
         dbid == Cardinality(work_items) + 1
     IN IF WorkItemMatches(p, wi.id) # {}
          THEN UNCHANGED <<jobs, work_items, comments, attachments, revisions,
                           faults>>
          ELSE \E okc, oka, okr \in BOOLEAN :
                 /\ faults + Failures(<<okc, oka, okr>>) <= MaxFaults
                 /\ faults' = faults + Failures(<<okc, oka, okr>>)
                 /\ work_items' = work_items \cup
                      {[id |-> dbid, project_id |-> p, external_id |-> wi.id,
                        title |-> wi.title]}
                 /\ comments' = comments (+)
                      ChildRows(dbid, get_work_item_children(wi.id, okc))
                 /\ attachments' = attachments (+)
                      ChildRows(dbid, get_work_item_children(wi.id, oka))
                 /\ revisions' = revisions (+)
                      ChildRows(dbid, get_work_item_children(wi.id, okr))
                 /\ jobs' = [jobs EXCEPT ![svc.job] = SvcProgress(@)]
  /\ svc' = SvcAdvance
  /\ UNCHANGED <<tasks, logs, project, connections, repositories, branches,
                 commits, pull_requests, area_paths, iteration_paths,
                 meta_rows, pipelines, pipeline_runs, upstream, loop, client>>

\* _extract_repositories, one turn of the loop.
svc_repository ==
  /\ svc.pc = "item"
  /\ Head(svc.types) = "repositories"
  /\ LET repo == svc.data[svc.i]
         p == jobs[svc.job].project_id
         dbid == Cardinality(repositories) + 1
     IN IF {r \in repositories :
              r.project_id = p /\ r.external_id = repo.id} # {}
          THEN UNCHANGED <<jobs, repositories, commits, pull_requests, faults>>
          ELSE \E okc, okp \in BOOLEAN :
                 /\ faults + Failures(<<okc, okp>>) <= MaxFaults
                 /\ faults' = faults + Failures(<<okc, okp>>)
                 /\ repositories' = repositories \cup
                      {[id |-> dbid, project_id |-> p, external_id |-> repo.id,
                        name |-> repo.name]}
                 /\ commits' = commits (+)
                      ChildRows(dbid, get_repository_children(repo.id, okc))
                 /\ pull_requests' = pull_requests (+)
                      ChildRows(dbid, get_repository_children(repo.id, okp))
                 /\ jobs' = [jobs EXCEPT ![svc.job] = SvcProgress(@)]
  /\ svc' = SvcAdvance
  /\ UNCHANGED <<tasks, logs, project, connections, work_items, revisions,
                 comments, attachments, branches, area_paths, iteration_paths,
                 meta_rows, pipelines, pipeline_runs, upstream, loop, client>>

\* _extract_pipelines, one turn of the loop: the row is inserted without a
\* look-up, then its runs.
svc_pipeline ==
  /\ svc.pc = "item"
  /\ Head(svc.types) = "pipelines"
  /\ LET pl == svc.data[svc.i]
         p == jobs[svc.job].project_id
         dbid == Cardinality(pipelines) + 1
     IN \E okr \in BOOLEAN :
          /\ Outcome(okr)
          /\ faults' = Count(okr)
          /\ pipelines' = pipelines \cup
               {[id |-> dbid, project_id |-> p, external_id |-> pl.id,
                 name |-> pl.name]}
          /\ pipeline_runs' = pipeline_runs (+)
               ChildRows(dbid, IF okr THEN {1} ELSE {})
          /\ jobs' = [jobs EXCEPT ![svc.job] = SvcProgress(@)]
  /\ svc' = SvcAdvance
  /\ UNCHANGED <<tasks, logs, project, connections, work_items, revisions,
                 comments, attachments, repositories, branches, commits,
                 pull_requests, area_paths, iteration_paths, meta_rows,
                 upstream, loop, client>>

\* A record cannot be stored: the loop logs a WARNING row and goes on.
svc_item_raise ==
  /\ svc.pc = "item"
  /\ faults < MaxFaults
  /\ faults' = faults + 1
  /\ logs' = logs \cup {LogRow(svc.job, "WARNING")}
  /\ svc' = SvcAdvance
  /\ UNCHANGED <<jobs, tasks, project, connections, tables, upstream, loop,
                 client>>

\* _complete_job
complete_job ==
  /\ svc.pc = "complete"
  /\ jobs' = [jobs EXCEPT ![svc.job] =
                [@ EXCEPT !.status = "completed", !.completed_at = TRUE,
                          !.progress = 100]]
  /\ logs' = logs \cup {LogRow(svc.job, "INFO")}
  /\ svc' = [svc EXCEPT !.pc = "create", !.types = Tail(@)]
  /\ UNCHANGED <<tasks, project, connections, tables, upstream, loop,
                 faults, client>>

\* _fail_job
fail_job ==
  /\ svc.pc = "fail"
  /\ jobs' = [jobs EXCEPT ![svc.job] = Failed(@, "exception")]
  /\ logs' = logs \cup {LogRow(svc.job, "ERROR")}
  /\ svc' = [svc EXCEPT !.pc = "create", !.types = Tail(@)]
  /\ UNCHANGED <<tasks, project, connections, tables, upstream, loop,
                 faults, client>>

NextService ==
  \/ \E p \in ProjectIds, types \in ServiceRequests :
       extract_project_data(p, types)
  \/ create_extraction_job
  \/ svc_fetch
  \/ svc_fetch_raise
  \/ svc_work_item
  \/ svc_repository
  \/ svc_pipeline
  \/ svc_item_raise
  \/ complete_job
  \/ fail_job
  \/ EditUpstream

SpecService == Init /\ [][NextService]_vars

(***************************************************************************)
(* Properties                                                              *)
(***************************************************************************)

Finished(j) == tasks[j].pc \in {"done", "crashed"}

AllowedMoves ==
  {<<"pending", "in_progress">>, <<"in_progress", "completed">>,
   <<"in_progress", "failed">>}

\* C1: the persisted status of a job only moves pending -> in_progress ->
\* completed or failed; once it is completed or failed no step changes it
\* (never back to in_progress, never from failed to completed).
C1_StatusMovesForward ==
  [][\A j \in JobIds :
       jobs'[j].status # jobs[j].status
         => <<jobs[j].status, jobs'[j].status>> \in AllowedMoves]_vars

\* C2: in every reachable state at most one job per (project_id,
\* artifact_type) has status in_progress.
C2_OneInProgressPerKey ==
  \A a, b \in JobIds :
    /\ jobs[a].project_id = jobs[b].project_id
    /\ jobs[a].artifact_type = jobs[b].artifact_type
    /\ jobs[a].status = "in_progress"
    /\ jobs[b].status = "in_progress"
    => a = b

RowCounts ==
  [work_items |-> Cardinality(work_items),
   revisions |-> BagCardinality(revisions),
   comments |-> BagCardinality(comments),
   attachments |-> BagCardinality(attachments),
   repositories |-> Cardinality(repositories),
   branches |-> BagCardinality(branches),
   commits |-> BagCardinality(commits),
   pull_requests |-> BagCardinality(pull_requests),
   pipelines |-> Cardinality(pipelines),
   pipeline_runs |-> BagCardinality(pipeline_runs)]

\* The service is processing a record of an extraction that an earlier job
\* already ran to completion, every upstream call has succeeded and the
\* upstream records have not been edited.
SecondRunUnchanged ==
  /\ svc.pc = "item"
  /\ faults = 0
  /\ upstream.version = 0
  /\ \E j \in 1..(svc.job - 1) :
       /\ jobs[j].artifact_type = jobs[svc.job].artifact_type
       /\ jobs[j].status = "completed"

\* C3: running the same extraction a second time against an unchanged
\* upstream data set leaves the row count of every artifact table as the
\* first run left it (stated for the ExtractionService path: no step of the
\* second run changes a row count).
C3_SecondRunKeepsRowCounts ==
  [][SecondRunUnchanged /\ faults' = 0 => RowCounts' = RowCounts]_vars

\* The service has just processed, without an error, the record svc.data[i]
\* of artifact type t, whose key had a row before the step.
Reprocessed(t, rows) ==
  /\ svc.pc = "item"
  /\ Head(svc.types) = t
  /\ svc'.i = svc.i + 1
  /\ logs' = logs
  /\ \E r \in rows : /\ r.project_id = jobs[svc.job].project_id
                     /\ r.external_id = svc.data[svc.i].id

KeyRows(rows, p, ext) ==
  {r \in rows : r.project_id = p /\ r.external_id = ext}

\* C4: when an extraction processes an upstream record whose natural key
\* (project_id, external_id) already has a row, afterwards the row's mutable
\* fields equal the upstream values and exactly one row has that key
\* (stated for the ExtractionService path, work items and repositories).
C4_UpsertUpdatesExistingRow ==
  [][/\ Reprocessed("workitems", work_items) =>
          LET rows == KeyRows(work_items', jobs[svc.job].project_id,
                              svc.data[svc.i].id)
          IN /\ Cardinality(rows) = 1
             /\ \A r \in rows : r.title = svc.data[svc.i].title
     /\ Reprocessed("repositories", repositories) =>
          LET rows == KeyRows(repositories', jobs[svc.job].project_id,
                              svc.data[svc.i].id)
          IN /\ Cardinality(rows) = 1
             /\ \A r \in rows : r.name = svc.data[svc.i].name]_vars

NoRows ==
  /\ work_items = {} /\ repositories = {} /\ pipelines = {}
  /\ revisions = EmptyBag /\ comments = EmptyBag /\ attachments = EmptyBag
  /\ branches = EmptyBag /\ commits = EmptyBag /\ pull_requests = EmptyBag
  /\ area_paths = EmptyBag /\ iteration_paths = EmptyBag
  /\ meta_rows = EmptyMeta /\ pipeline_runs = EmptyBag

\* C5: when the index fetch of a workitems or repositories extraction fails
\* (upstream unreachable or credential rejected), the job ends failed with a
\* non-empty error_message and no artifact rows are written.
C5_IndexFailureFailsJob ==
  \A j \in JobIds :
    /\ tasks[j].top \in {"extract_work_items", "extract_repositories"}
    /\ tasks[j].index = "failed"
    /\ Finished(j)
    => /\ jobs[j].status = "failed"
       /\ jobs[j].error_message # ""
       /\ Len(jobs) = 1 => NoRows

\* C6: for every artifact type, a task that runs for a job whose
\* connection_id matches no Connection row ends with the job failed and
\* error_message set, and the task does not crash.
C6_MissingConnectionFailsJob ==
  \A j \in JobIds :
    /\ project.connection_id \notin connections
    /\ Finished(j)
    => /\ jobs[j].status = "failed"
       /\ jobs[j].error_message # ""
       /\ tasks[j].pc # "crashed"

\* C7: for every artifact type, if an exception that is not handled per item
\* is raised inside the task, the job ends failed, error_message is set and
\* at least one ERROR row of ExtractionLog exists for the job.
C7_UnhandledExceptionFailsJob ==
  \A j \in JobIds :
    /\ tasks[j].raised
    /\ Finished(j)
    => /\ jobs[j].status = "failed"
       /\ jobs[j].error_message # ""
       /\ LogRow(j, "ERROR") \in logs

\* The extractions that start with an index fetch of their own.
IndexedExtractions ==
  {"extract_work_items", "extract_repositories", "extract_area_paths",
   "extract_iteration_paths"}

\* C8: an extraction whose index fetch yields zero items ends with the job
\* completed with progress 100 and writes no artifact rows.
C8_ZeroItemsCompletes ==
  \A j \in JobIds :
    /\ tasks[j].top \in IndexedExtractions
    /\ tasks[j].index = "ok"
    /\ tasks[j].n = 0
    /\ Finished(j)
    => /\ jobs[j].status = "completed"
       /\ jobs[j].progress = 100
       /\ Len(jobs) = 1 => NoRows

\* C9: in every reachable state every job whose status is completed has
\* progress 100 and completed_at set, also a workitems job one of whose
\* detail batches came back short.
C9_CompletedMeansFullProgress ==
  \A j \in JobIds :
    jobs[j].status = "completed"
      => jobs[j].progress = 100 /\ jobs[j].completed_at

CountedTypes ==
  {"workitems", "repositories", "pipelines", "testcases", "areapaths",
   "iterationpaths", "customfields", "users", "boardcolumns", "wikipages"}

\* The project's aggregate count field for an artifact type.
AggregateCount(pr, t) ==
  CASE t = "workitems"      -> pr.work_item_count
    [] t = "repositories"   -> pr.repo_count
    [] t = "pipelines"      -> pr.pipeline_count
    [] t = "testcases"      -> pr.test_case_count
    [] t = "areapaths"      -> pr.area_path_count
    [] t = "iterationpaths" -> pr.iteration_path_count
    [] t = "customfields"   -> pr.custom_field_count
    [] t = "users"          -> pr.user_count
    [] t = "boardcolumns"   -> pr.board_column_count
    [] OTHER                -> pr.wiki_page_count

\* C10: whenever an extraction of artifact type T ends with the job
\* completed, the project's aggregate count for T equals the job's final
\* total_items.
C10_AggregateCountIsTotal ==
  [][\A j \in JobIds :
       /\ jobs[j].artifact_type \in CountedTypes
       /\ ~Finished(j)
       /\ tasks'[j].pc = "done"
       /\ jobs'[j].status = "completed"
       => AggregateCount(project', jobs[j].artifact_type)
            = jobs'[j].total_items]_vars

\* C11: for any single job, of any artifact type, the sequence of persisted
\* progress values over the job's life is non-decreasing: no step lowers the
\* progress of a job.
C11_ProgressNeverDecreases ==
  [][\A j \in JobIds : jobs'[j].progress >= jobs[j].progress]_vars

\* floor(k * 100 / n)
FloorPercent(k, n) == (k * 100) \div n

\* The program points at which a batch of an extraction has been processed
\* and its progress is about to be written, and the points that follow.
BatchEnds == {"wi_batch_end", "rp_prs", "ap_store"}

AfterBatch == {"wi_sleep", "rp_sleep", "ap_finish"}

\* The number of indexed items the task has processed: the local counter
\* extracted_items of extract_work_items and extract_repositories, and
\* area_path_count, which has counted every record when the loop of
\* extract_area_paths is over.
Processed(tk) == IF tk.fn = "extract_area_paths" THEN tk.n ELSE tk.extracted

\* C12: after each batch of an extraction in which k of the job's n indexed
\* items have been processed so far, the persisted progress is
\* floor(k * 100 / n) and the persisted extracted_items is k.
C12_ProgressIsFloorOfShare ==
  [][\A j \in JobIds :
       /\ tasks[j].pc \in BatchEnds
       /\ tasks'[j].pc \in AfterBatch
       /\ tasks'[j].n > 0
       => /\ jobs'[j].progress
              = FloorPercent(Processed(tasks'[j]), tasks'[j].n)
          /\ jobs'[j].extracted_items = Processed(tasks'[j])]_vars

(***************************************************************************)
(* extract_work_items over an index of several batches.  The upstream       *)
(* project holds a number of work items at or next to a whole number of     *)
(* batches and every upstream call answers.                                 *)
(***************************************************************************)

IndexSizes ==
  {n \in 1..MaxIndex : n % BatchSize \in {0, 1, BatchSize - 1}}

InitBatches ==
  /\ EmptyStore
  /\ connections = ConnectionIds
  /\ upstream \in {Upstream(TRUE, n) : n \in IndexSizes}
  /\ faults = MaxFaults

WorkItemStep(j) ==
  \/ wi_begin(j)
  \/ wi_index(j)
  \/ wi_details(j)
  \/ wi_item(j)
  \/ wi_rev(j)
  \/ wi_com(j)
  \/ wi_att(j)
  \/ wi_batch_end(j)
  \/ wi_sleep(j)

NextBatches ==
  \/ \E p \in ProjectIds : start_extraction(p, "workitems")
  \/ \E j \in JobIds : WorkItemStep(j)

SpecBatches == InitBatches /\ [][NextBatches]_vars

\* ceil(n / d)
CeilDiv(n, d) == (n + d - 1) \div d

\* The ids first..last in index order.
IndexRange(first, last) == [x \in 1..(last - first + 1) |-> first + x - 1]

BatchIds(tk) == [x \in 1..Len(tk.batch) |-> tk.batch[x].id]

\* C13: a workitems extraction of a project with n > 0 upstream work items,
\* every detail fetch returning all the requested items, takes its batches
\* in index order, each of 100 items except possibly the last, takes
\* exactly ceil(n / 100) of them, and ends with the job completed and
\* extracted_items = total_items = n.
C13_BatchesCoverIndexInOrder ==
  [][\A j \in JobIds :
       LET n == upstream.work_items
           tk == tasks'[j]
       IN /\ (tasks[j].pc = "wi_details" /\ tk.pc # "wi_details")
               => /\ tk.i % BatchSize = 0
                  /\ BatchIds(tk) = IndexRange(tk.i + 1, Min(tk.i + BatchSize, n))
                  /\ (tk.i + BatchSize < n => Len(tk.batch) = BatchSize)
          /\ (tasks[j].pc \notin {"done", "crashed"}
                /\ tk.pc \in {"done", "crashed"})
               => /\ tk.pc = "done"
                  /\ jobs'[j].status = "completed"
                  /\ jobs'[j].extracted_items = n
                  /\ jobs'[j].total_items = n
                  /\ tk.i \div BatchSize + 1 = CeilDiv(n, BatchSize)]_vars

\* A project of more than two batches has been extracted to the end.
C13_ThreeBatchesDone ==
  \E j \in JobIds :
    /\ tasks[j].pc = "done"
    /\ upstream.work_items > 2 * BatchSize
    /\ tasks[j].i = 2 * BatchSize
    /\ jobs[j].status = "completed"
    /\ jobs[j].extracted_items = upstream.work_items

\* C14: whenever the job list is queried, every job that is in_progress with
\* a started_at more than 5 minutes in the past is set to completed with
\* progress 100, completed_at set and extracted_items = total_items, where
\* total_items keeps its value if it was non-zero and becomes 10 otherwise.
C14_StalledJobsForcedComplete ==
  [][get_extraction_jobs =>
       \A j \in JobIds :
         (jobs[j].status = "in_progress" /\ jobs[j].started_at = "stale")
           => /\ jobs'[j].status = "completed"
              /\ jobs'[j].progress = 100
              /\ jobs'[j].completed_at
              /\ jobs'[j].extracted_items = jobs'[j].total_items
              /\ jobs'[j].total_items =
                   IF jobs[j].total_items = 0 THEN 10
                                              ELSE jobs[j].total_items]_vars

\* A job without a total has been force-completed while its task was still
\* running.
C14_ForcedWithDefaultTotal ==
  \E j \in JobIds :
    /\ tasks[j].pc \notin {"done", "crashed"}
    /\ jobs[j].status = "completed"
    /\ jobs[j].started_at = "stale"
    /\ jobs[j].progress = 100
    /\ jobs[j].total_items = 10
    /\ jobs[j].extracted_items = 10

\* C15: on every exit path of an extraction task (normal completion, early
\* return, handled failure) the task's database session and the connector's
\* HTTP session are both released: a task that has ended holds no open
\* database session and no open aiohttp session.
C15_SessionsReleasedOnExit ==
  \A j \in JobIds :
    Finished(j) =>
      /\ tasks[j].db = 0
      /\ ~tasks[j].http

\* C16: under an all-metadata job the persisted progress only takes the
\* fixed per-step values 0, 16, 33, 50, 66, 83, 99 and 100, never a
\* per-record value written by one of the six sub-extractions.
AllMetadataProgress == {0, 16, 33, 50, 66, 83, 99, 100}

C16_AllMetadataProgressInFixedSteps ==
  \A j \in JobIds :
    tasks[j].top = "extract_all_metadata" =>
      jobs[j].progress \in AllMetadataProgress

\* C17: in every reachable state every ExtractionJob row has a status in
\* {pending, in_progress, completed, failed}, whichever entry point or
\* service created or updated it.
JobStatuses == {"pending", "in_progress", "completed", "failed"}

C17_StatusInDocumentedSet ==
  \A j \in JobIds : jobs[j].status \in JobStatuses

\* C18, as stated: a start request for a pair (project, artifact_type) that
\* is served while the job another start request inserted for the pair is
\* in_progress and has not begun to run can still pass the pre-check and
\* insert a second job.
StartInserts(p, t) ==
  /\ start_extraction(p, t)
  /\ Len(jobs') = Len(jobs) + 1

JustStarted(p, t) == {j \in InProgressFor(p, t) : tasks[j].pc = "start"}

C18_ConcurrentStartsBothInsert ==
  \A p \in ProjectIds, t \in ArtifactTypes :
    (JustStarted(p, t) # {} /\ Len(jobs) < MaxJobs /\ loop.running = 0)
      => ENABLED StartInserts(p, t)

\* C18, amended: the handler runs its pre-check and its insert without
\* yielding the event loop, so a start request never inserts a job for a
\* pair that has an in_progress job at that moment; it answers with the
\* existing job and leaves the jobs and the tasks as they are.
C18_StartNeverInsertsBesideInProgress ==
  [][\A p \in ProjectIds, t \in ArtifactTypes :
       (start_extraction(p, t) /\ InProgressFor(p, t) # {})
         => (jobs' = jobs /\ tasks' = tasks)]_vars

\* Two jobs of one pair that start_extraction inserted one after the other
\* (reextract_job would have dispatched simulate_extraction), the second
\* while the first showed a finished status, and both in_progress now.
C18_TwoStartedJobsInProgress ==
  /\ Len(jobs) = 2
  /\ jobs[1].project_id = jobs[2].project_id
  /\ jobs[1].artifact_type = "classification"
  /\ jobs[2].artifact_type = "classification"
  /\ tasks[1].top = "extract_classification"
  /\ tasks[2].top = "extract_classification"
  /\ jobs[1].status = "in_progress"
  /\ jobs[2].status = "in_progress"

\* C19: for every artifact type a re-extracted job runs the same extraction
\* routine that start_extraction runs for that type: the task of every job,
\* started or re-extracted, is the routine of the start dispatch.
C19_ReextractRunsStartRoutine ==
  \A j \in JobIds : tasks[j].top = StartDispatch(jobs[j].artifact_type)

(***************************************************************************)
(* The connectors' operations against a failing upstream                   *)
(***************************************************************************)

\* What a request can meet: an HTTP status, or a transport failure raised by
\* aiohttp (asyncio.TimeoutError, ClientConnectionError, another error).
Statuses == {200, 204, 401, 404, 500}

Responses ==
  {[kind |-> "status", code |-> c] : c \in Statuses}
    \cup {[kind |-> k, code |-> 0] :
            k \in {"TimeoutError", "ClientConnectionError", "Exception"}}

\* The operations of api/main.py's AzureDevOpsClient whose body is one
\* try / except Exception around the request.
GuardedOps ==
  {"get_projects", "get_repositories", "get_repository_branches",
   "get_repository_commits", "get_repository_pull_requests",
   "get_work_items_count", "get_work_item_ids", "get_work_item_details",
   "get_work_item_revisions", "get_work_item_comments",
   "get_work_item_attachments", "get_area_paths", "get_iteration_paths"}

ConnectorOps ==
  GuardedOps \cup {"get_project_details", "services.get_project_details"}

\* if response.status == 200: return the data; else: log, return [] (or 0);
\* except Exception: log, return [] (or 0).
guarded_request(r) ==
  IF r.kind = "status" /\ r.code = 200 THEN "value" ELSE "empty"

\* api/main.py get_project_details: no try block. A status other than 200
\* gives {}; an exception of session.get leaves the coroutine.
get_project_details(r) ==
  IF r.kind = "status"
    THEN IF r.code = 200 THEN "value" ELSE "empty"
    ELSE "raised"

\* services/ado_client.py _make_request: raise_for_status() raises on a
\* status of 400 and above, the except clause logs and re-raises, and a
\* TimeoutError is not caught at all.
make_request(r) ==
  IF r.kind = "status" /\ r.code < 400 THEN "value" ELSE "raised"

Reply(op, r) ==
  CASE op \in GuardedOps                    -> guarded_request(r)
    [] op = "get_project_details"          -> get_project_details(r)
    [] op = "services.get_project_details" -> make_request(r)

\* One operation of a connector: _get_session creates the session when
\* there is none, the request meets r, the operation returns or raises.
connector_request(op, r) ==
  /\ client' = [session |-> TRUE, op |-> op, response |-> r,
                result |-> Reply(op, r)]
  /\ UNCHANGED <<jobs, tasks, logs, project, connections, tables, upstream,
                 loop, faults, svc>>

\* close(): the session is closed and forgotten.
connector_close ==
  /\ client.session
  /\ client' = [client EXCEPT !.session = FALSE]
  /\ UNCHANGED <<jobs, tasks, logs, project, connections, tables, upstream,
                 loop, faults, svc>>

InitConnector ==
  /\ EmptyStore
  /\ connections = ConnectionIds
  /\ upstream = Upstream(TRUE, NumWorkItems)
  /\ faults = 0

NextConnector ==
  \/ \E op \in ConnectorOps, r \in Responses : connector_request(op, r)
  \/ connector_close

SpecConnector == InitConnector /\ [][NextConnector]_vars

Succeeded(r) == r.kind = "status" /\ r.code \in 200..299

\* C20: every connector operation, the project-details call included,
\* returns an empty result instead of raising when the transport fails or
\* the upstream response is not 2xx.
C20_FailuresGiveEmptyResult ==
  (client.op # "none" /\ ~Succeeded(client.response))
    => client.result = "empty"

\* The task j ends the processing of a work item in this step.
ItemProcessed(j) ==
  /\ tasks[j].fn = "extract_work_items"
  /\ tasks[j].pc = "wi_att"
  /\ tasks'[j].pc # "wi_att"

\* The rows of bag under the parent are upstream children of the work item
\* wid, each stored once; all of them when every fetch of the run answered.
ExactChildren(bag, parent, wid, answered) ==
  LET up == get_work_item_children(wid, TRUE) IN
  /\ \A r \in ChildrenOf(bag, parent) : r.key \in up /\ bag[r] = 1
  /\ answered => \A c \in up :
                   [parent |-> parent, key |-> c] \in ChildrenOf(bag, parent)

\* C21: after a workitems pass has processed a work item, the stored
\* revisions, comments and attachments of the item are exactly the child set
\* obtained from upstream in that pass: nothing stored by an earlier pass is
\* left and every upstream child is stored exactly once.
C21_ChildrenFullyReplaced ==
  [][\A j \in JobIds :
       ItemProcessed(j) =>
         LET wid == tasks[j].batch[tasks[j].k].id
             dbid == tasks[j].dbid
         IN /\ ExactChildren(revisions', dbid, wid, faults' = 0)
            /\ ExactChildren(comments', dbid, wid, faults' = 0)
            /\ ExactChildren(attachments', dbid, wid, faults' = 0)]_vars

\* C22: a persistence failure while upserting one work item record rolls
\* back only that record and the extraction continues with the next one: the
\* step in which the upsert of a record fails neither ends the task nor
\* changes the job's status.
C22_RecordFailureDoesNotAbort ==
  [][\A j \in JobIds :
       (/\ tasks[j].fn = "extract_work_items"
        /\ tasks[j].pc = "wi_item"
        /\ tasks'[j] # tasks[j]
        /\ faults' > faults)
         => /\ tasks'[j].pc \notin {"done", "crashed"}
            /\ jobs'[j].status = jobs[j].status]_vars

RECURSIVE TreeNodes(_, _)

\* The named nodes of a classification tree, each with its path, the path
\* of its parent and whether it has children, read off the tree itself.
TreeNodes(node, parent_path) ==
  IF "name" \notin DOMAIN node THEN {}
  ELSE LET path == IF parent_path # "" THEN parent_path \o Sep \o node.name
                                       ELSE node.name
           kids == IF "children" \in DOMAIN node THEN node.children ELSE << >>
       IN {[path |-> path, parent_path |-> parent_path,
            has_children |-> kids # << >>]}
            \cup UNION {TreeNodes(kids[i], path) : i \in DOMAIN kids}

RowsMatchTree(bag, tree) ==
  \A r \in DOMAIN bag :
    \E d \in TreeNodes(tree, "") :
      /\ d.path = r.path
      /\ d.parent_path = r.parent_path
      /\ d.has_children = r.has_children

\* C23: the flattened records carry the path of every named node, and the
\* parent path and the has-children flag that the area / iteration path
\* extraction stores for a node match the tree (has_children is true exactly
\* when the node has children).
C23_StoredPathsMatchTree ==
  /\ RowsMatchTree(area_paths, AreaTree)
  /\ RowsMatchTree(iteration_paths, IterationTree)

\* The artifact types whose task writes `completed` only in its last step:
\* for these a completed job with an unfinished task was force-completed by
\* a job-list query.
SelfCompleting == {"workitems", "repositories", "pipelines", "testcases"}

ForcedWhileRunning(j) ==
  /\ jobs[j].artifact_type \in SelfCompleting
  /\ jobs[j].status = "completed"
  /\ ~Finished(j)

\* C24: once a job-list query has force-completed a job whose extraction
\* task is still running, no later step of the task changes the job's
\* persisted status, progress or extracted_items.
C24_StallTimeoutIsFinal ==
  [][\A j \in JobIds :
       ForcedWhileRunning(j) =>
         /\ jobs'[j].status = jobs[j].status
         /\ jobs'[j].progress = jobs[j].progress
         /\ jobs'[j].extracted_items = jobs[j].extracted_items]_vars

\* C25: every extraction task that ran to its end (returned or raised), for
\* every artifact type and for the simulated extractions, has left its job
\* in a terminal status: no task has exited while its job is in_progress.
C25_EndedTaskLeavesTerminalJob ==
  \A j \in JobIds :
    Finished(j) => jobs[j].status \in {"completed", "failed"}

\* C26: under any interleaving of concurrently running workitems extraction
\* tasks of one project, the work_items table never holds two rows with the
\* same (project_id, external_id).
C26_WorkItemKeysUnique ==
  \A a, b \in work_items :
    (a.project_id = b.project_id /\ a.external_id = b.external_id) => a = b

\* Two workitems tasks of one project are both in the middle of the same
\* work item: each has upserted it and awaits the item's revisions.
C26_TwoTasksOnOneItem ==
  /\ Len(jobs) = 2
  /\ jobs[1].project_id = jobs[2].project_id
  /\ \A j \in {1, 2} : /\ tasks[j].fn = "extract_work_items"
                        /\ tasks[j].pc = "wi_rev"
  /\ tasks[1].batch[tasks[1].k].id = tasks[2].batch[tasks[2].k].id
  /\ work_items # {}

\* Every work item row has each upstream child exactly once in the bag.
EachChildOnce(bag) ==
  \A r \in work_items :
    \A c \in get_work_item_children(r.external_id, TRUE) :
      CopiesIn([parent |-> r.id, key |-> c], bag) = 1

\* Two workitems tasks of one project ran with overlapping lifetimes against
\* upstream data that answered every request, and both have finished.
BothWorkItemTasksDone ==
  /\ Len(jobs) = 2
  /\ \A j \in {1, 2} : /\ tasks[j].top = "extract_work_items"
                       /\ Finished(j)
                       /\ jobs[j].status = "completed"
  /\ jobs[1].project_id = jobs[2].project_id
  /\ loop.switches > 0
  /\ faults = 0
  /\ upstream.populated

\* C27: under any interleaving of two workitems extraction tasks running
\* concurrently for one project against the same upstream data, once both
\* have finished every work item's stored revisions, comments and
\* attachments hold each upstream child exactly once.
C27_ConcurrentPassesStoreChildrenOnce ==
  BothWorkItemTasksDone =>
    /\ EachChildOnce(revisions)
    /\ EachChildOnce(comments)
    /\ EachChildOnce(attachments)

\* An earlier extraction of the same project and artifact type completed
\* while every request so far was answered, and the task j is a re-extraction
\* whose fetch of a child collection fails in this step.
ChildFetchFails(j, fn, pc) ==
  /\ tasks[j].fn = fn
  /\ tasks[j].pc = pc
  /\ tasks'[j].pc # pc
  /\ faults = 0
  /\ faults' = 1
  /\ \E i \in 1..(j - 1) :
       /\ jobs[i].project_id = jobs[j].project_id
       /\ jobs[i].artifact_type = jobs[j].artifact_type
       /\ jobs[i].status = "completed"
       /\ Finished(i)

\* C28: if the connector call that fetches a child collection of a work item
\* (revisions, comments, attachments) or of a repository (branches, commits,
\* pull requests) fails during a re-extraction, the children an earlier
\* successful extraction stored for the item are still stored afterwards.
C28_FailedChildFetchKeepsChildren ==
  [][\A j \in JobIds :
       LET dbid == tasks[j].dbid IN
       /\ ChildFetchFails(j, "extract_work_items", "wi_rev")
            => ChildrenOf(revisions', dbid) # {}
       /\ ChildFetchFails(j, "extract_work_items", "wi_com")
            => ChildrenOf(comments', dbid) # {}
       /\ ChildFetchFails(j, "extract_work_items", "wi_att")
            => ChildrenOf(attachments', dbid) # {}
       /\ ChildFetchFails(j, "extract_repositories", "rp_branches")
            => ChildrenOf(branches', dbid) # {}
       /\ ChildFetchFails(j, "extract_repositories", "rp_commits")
            => ChildrenOf(commits', dbid) # {}
       /\ ChildFetchFails(j, "extract_repositories", "rp_prs")
            => ChildrenOf(pull_requests', dbid) # {}]_vars

\* C29: in every reachable state every job has
\* 0 <= extracted_items <= total_items, for every artifact type including the
\* simulated pipelines, testcases and unknown-type extractions.
C29_ExtractedWithinTotal ==
  \A j \in JobIds :
    /\ 0 <= jobs[j].extracted_items
    /\ jobs[j].extracted_items <= jobs[j].total_items

\* C30: start_extraction for a (project, artifact_type) that already has an
\* in_progress job answers with that job's descriptor and the message
\* "Extraction already in progress", inserts no ExtractionJob row, schedules
\* no extraction task and leaves the existing job as it is.
C30_StartWithInProgressJobIsNoOp ==
  /\ [](\A p \in ProjectIds, t \in ArtifactTypes :
          InProgressFor(p, t) # {} =>
            /\ StartResponse(p, t).id \in InProgressFor(p, t)
            /\ StartResponse(p, t).message = "Extraction already in progress")
  /\ [][\A p \in ProjectIds, t \in ArtifactTypes :
          (InProgressFor(p, t) # {} /\ start_extraction(p, t)) =>
            /\ Len(jobs') = Len(jobs)
            /\ Len(tasks') = Len(tasks)
            /\ \A j \in InProgressFor(p, t) : jobs'[j] = jobs[j]]_vars

\* A start request can be served (the loop is idle, a row could still be
\* inserted) for a pair whose job is in_progress with its task under way.
C30_RequestMeetsRunningJob ==
  /\ loop.running = 0
  /\ Len(jobs) < MaxJobs
  /\ \E p \in ProjectIds, t \in ArtifactTypes :
       \E j \in InProgressFor(p, t) : tasks[j].pc \notin {"start", "done", "crashed"}

====
